---------------------------- MODULE Spec2Model ----------------------------
(***************************************************************************)
(* A model of the hive sandbox executor (core/src/task/executor.rs) and of *)
(* the Hive facade (hive-core/src/lib.rs).                                 *)
(*                                                                         *)
(* Part 1 models ONE Executor: the worker thread with its select loop, the *)
(* bounded Task channel, the unbounded waker channel, MyWaker and the      *)
(* PanicNotifier, together with the threads around it: submitters calling  *)
(* Executor::send, reactor threads of the outer scheduler waking tasks,    *)
(* and the owner dropping the Executor.                                    *)
(*                                                                         *)
(* Part 2 models the Hive facade over a Sandbox Pool of several Executors  *)
(* and the Service Pool.  The Executors are the ones of Part 1, seen from  *)
(* outside (channel, active set, panicked flag); the Sandbox Pool, the     *)
(* Service Pool and Sandbox::handle_request follow their specification.    *)
(***************************************************************************)
EXTENDS Integers, Sequences, FiniteSets, TLC

\* mpsc::channel::<Task>(16)
Capacity == 16

\* Tasks submitted in a run of the detailed specification.
NumTasks == 2
\* Tasks submitted in a run of the backpressure specification: more than
\* the channel holds together with one Task that has completed.
NumBPTasks == 18
\* Reactor threads of the outer scheduler that complete I/O and wake tasks.
NumThreads == 1
\* How many times the inner future of one task may return Pending.
MaxPend == 1
\* How many times the cleanup interval fires in a run.
MaxTicks == 1
\* Workers of the Sandbox Pool (HiveOptions.sandbox_pool_size).
NumWorkers == 2
\* Concurrent callers of the Hive facade.
NumClients == 2
\* Service names in use.
NumNames == 1
\* ServiceImpl values compiled in a run.
MaxImpls == 2

VARIABLES
  wpc,        \* position of the worker thread
  panicked,   \* Executor.panicked: Arc<AtomicBool>
  task_tx,    \* TRUE while Executor.task_tx is alive
  stop_tx,    \* TRUE while Executor._stop_tx is alive
  task_ch,    \* Tasks buffered in the bounded channel (task_tx -> task_rx)
  waker_ch,   \* number of () buffered in the unbounded waker channel
  waker,      \* the worker's local `waker`
  sent,       \* MyWaker.sent of every waker
  registered, \* waker registered in the FuturesUnordered (at most one)
  ready,      \* ready-to-run queue of the FuturesUnordered
  cur,        \* the Task received by the select, being accepted (at most one)
  polled,     \* poll_next: futures polled in this call
  yielded,    \* poll_next: futures that woke themselves in this call
  len,        \* poll_next: size of the set when the call began
  tstate,     \* where every Task is
  left,       \* Pending results the inner future of a task still returns
  spin,       \* tasks whose inner future wakes itself and never completes
  iowait,     \* tasks whose inner future waits for the reactor
  replies,    \* values written to every Task's reply channel
  tick_due,   \* the cleanup interval has a tick ready
  ticks,      \* ticks fired so far
  tpc,        \* position of every reactor thread
  tw          \* the waker a reactor thread took (at most one)

execVars == <<wpc, panicked, task_tx, stop_tx, task_ch, waker_ch, waker, sent,
              registered, ready, cur, polled, yielded, len, tstate, left, spin,
              iowait, replies, tick_due, ticks, tpc, tw>>

VARIABLES
  e_pc,       \* position of every worker thread of the Sandbox Pool
  e_panicked, \* Executor.panicked of every worker
  e_queue,    \* Tasks buffered in every worker's channel
  e_active,   \* TaskFutures in every worker's FuturesUnordered
  loaded,     \* ServiceImpls whose values every worker's Runtime holds
  rr,         \* round-robin counter of the Sandbox Pool
  svc,        \* the Service Pool: state and ServiceImpl of every name
  lock,       \* the caller that holds the entry of every name (0: none)
  nextimpl,   \* identity of the next ServiceImpl compiled
  cl          \* every caller: its operation and its position in it

poolVars == <<e_pc, e_panicked, e_queue, e_active, loaded, rr, svc, lock,
              nextimpl, cl>>

VARIABLES
  conv,       \* an error value on its way through the conversions of error.rs
  pm,         \* a PathMatcher, the path given to it and what gen_params returned
  norm        \* a path given to normalize_path_str, and the results

pureVars == <<conv, pm, norm>>

VARIABLES
  meta,       \* metadata.json of every service: its `started` flag
  ep          \* the start/stop endpoint of every caller: its position in start_stop

srvVars == <<meta, ep>>

vars == <<execVars, poolVars, pureVars, srvVars>>

Workers == 1..NumWorkers
Clients == 1..NumClients
Names == 1..NumNames

TaskIds == DOMAIN tstate
Threads == DOMAIN tpc
\* Identities for the Arc<MyWaker> values alive at one time: the worker's
\* current one, the one it replaces, and one held by each reactor thread.
WakerIds == 0..(NumThreads + 1)
Active == {t \in TaskIds : tstate[t] = "active"}
WorkerAlive == wpc \notin {"stopped", "panicked"}

-----------------------------------------------------------------------------
(* MyWaker *)

\* The handler keeps the waker it has instead of making a new one.
FreshWaker_Kept == waker

\* MyWaker::from_tx: a waker not yet used by anyone, sent = false.
FreshWaker ==
  CHOOSE w \in WakerIds :
    /\ w \notin ({waker} \cup registered \cup UNION {tw[th] : th \in Threads})
    /\ \A v \in WakerIds :
         v \notin ({waker} \cup registered \cup UNION {tw[th] : th \in Threads})
           => w <= v

\* The waker the worker's local `waker` holds.
OwnWaker == IF WorkerAlive THEN {waker} ELSE {}

\* The wakers held by reactor threads.
Held == UNION {tw[th] : th \in Threads}

\* The flags of the wakers in `live`.  A MyWaker is freed when its last Arc is
\* dropped; its identity then stands for a waker from_tx has yet to make.
Collect(snt, live) == [w \in WakerIds |-> IF w \in live THEN snt[w] ELSE FALSE]

\* wake_by_ref, the test: `if !self.sent.load(Relaxed)`.
WakeSends(snt, w) == ~snt[w]

\* wake_by_ref, `self.tx.send(())`; the result is ignored, and the send
\* fails when the worker has dropped waker_rx.
ChanAfterSend(ch) == IF WorkerAlive THEN ch + 1 ELSE ch

\* A wake that sets the flag and sends nothing.
ChanAfterWake_Silent(snt, w, ch) == ch

\* wake_by_ref run by one thread without interruption: the channel after it.
ChanAfterWake(snt, w, ch) == IF WakeSends(snt, w) THEN ChanAfterSend(ch) ELSE ch

\* A wake that sends and does not store the flag.
SentAfterWake_Unset(snt, w) == snt

\* wake_by_ref run by one thread without interruption: the flags after it.
SentAfterWake(snt, w) == IF WakeSends(snt, w) THEN [snt EXCEPT ![w] = TRUE] ELSE snt

-----------------------------------------------------------------------------
(* PanicNotifier *)

\* A guard that stores the flag whenever it drops.
PanicNotifierDrop_Always(flag, panicking) == TRUE

\* A guard that stores nothing when it drops.
PanicNotifierDrop_Never(flag, panicking) == flag

\* Drop for PanicNotifier: the flag after the worker thread's guard drops.
PanicNotifierDrop(flag, panicking) == IF panicking THEN TRUE ELSE flag

\* Executor::is_panicked
is_panicked == panicked

-----------------------------------------------------------------------------
(* Initial states *)

\* A caller that is between two operations.
IdleClient ==
  [pc |-> "idle", op |-> "none", name |-> 0, w |-> 0, seen |-> {},
   pre |-> "none", preimpl |-> 0, h |-> 0, g |-> FALSE, new |-> 0,
   reply |-> "none", res |-> "none", arg |-> <<>>]

\* Hive::new: the Sandbox Pool has spawned its workers, the Service Pool is
\* empty.
PoolInit ==
  /\ e_pc = [w \in Workers |-> "init"]
  /\ e_panicked = [w \in Workers |-> FALSE]
  /\ e_queue = [w \in Workers |-> <<>>]
  /\ e_active = [w \in Workers |-> {}]
  /\ loaded = [w \in Workers |-> {}]
  /\ rr = 0
  /\ svc = [n \in Names |-> [st |-> "absent", impl |-> 0, id |-> 0]]
  /\ lock = [n \in Names |-> 0]
  /\ nextimpl = 1
  /\ cl = [c \in Clients |-> IdleClient]

\* n Tasks to submit, of which those in `slow` may return Pending and those in
\* `sp` wake themselves on every poll without completing, and k reactor threads.
ExecInit(n, slow, sp, k) ==
  /\ wpc = "init"
  /\ panicked = FALSE
  /\ task_tx = TRUE
  /\ stop_tx = TRUE
  /\ task_ch = <<>>
  /\ waker_ch = 0
  /\ waker = 0
  /\ sent = [w \in WakerIds |-> FALSE]
  /\ registered = {}
  /\ ready = <<>>
  /\ cur = {}
  /\ polled = 0
  /\ yielded = 0
  /\ len = 0
  /\ tstate = [t \in 1..n |-> "new"]
  /\ left = [t \in 1..n |-> IF t \in slow THEN MaxPend ELSE 0]
  /\ spin = sp
  /\ iowait = [t \in 1..n |-> FALSE]
  /\ replies = [t \in 1..n |-> 0]
  /\ tick_due = FALSE
  /\ ticks = 0
  /\ tpc = [th \in 1..k |-> "idle"]
  /\ tw = [th \in 1..k |-> {}]

\* No value is under conversion.
NoConv == [kind |-> <<>>, foreign |-> <<>>, error |-> <<>>, lua |-> <<>>, n |-> 0]

\* No PathMatcher is built.
NoMatcher == [pc |-> "none", path |-> <<>>, regex |-> <<>>, param_names |-> <<>>,
              arg |-> <<>>, params |-> <<>>]

\* No path is normalized.
NoNorm == [pc |-> "none", path |-> <<>>, result |-> <<>>, again |-> <<>>]

PureInit == conv = NoConv /\ pm = NoMatcher /\ norm = NoNorm

\* No request is in start_stop.
IdleEndpoint == [pc |-> "idle", op |-> "none", name |-> 0, core |-> "none"]

\* No service is recorded as started.
ServerInit ==
  /\ meta = [n \in Names |-> FALSE]
  /\ ep = [c \in Clients |-> IdleEndpoint]

InitExec(n, slow, sp, k) ==
  ExecInit(n, slow, sp, k) /\ PoolInit /\ PureInit /\ ServerInit

\* Task 1 is the one that may return Pending; it may be one that never completes.
Init == \E sp \in {{}, {1}} : InitExec(NumTasks, {1}, sp, NumThreads)

-----------------------------------------------------------------------------
(* Submitters: Executor::send, and the owner dropping the Executor *)

\* `self.task_tx.send(task.into())` is called: the submitter starts to wait
\* for a permit of the channel.  Tasks are interchangeable, so they are
\* submitted in the order of their identities.
SendStart(t) ==
  /\ tstate[t] = "new"
  /\ task_tx
  /\ \A u \in TaskIds : u < t => tstate[u] # "new"
  /\ tstate' = [tstate EXCEPT ![t] = "sending"]
  /\ UNCHANGED <<wpc, panicked, task_tx, stop_tx, task_ch, waker_ch, waker, sent,
                 registered, ready, cur, polled, yielded, len, left, spin, iowait,
                 replies, tick_due, ticks, tpc, tw>>
  /\ UNCHANGED <<poolVars, pureVars, srvVars>>

\* A channel that admits one Task more than its capacity.
HasPermit_OneMore(ch) == Len(ch) <= Capacity

\* The room the bounded channel has for one more Task.
HasPermit(ch) == Len(ch) < Capacity

\* The send completes: a permit is free and this submitter is the first of
\* the waiting ones (the channel hands permits out in arrival order).
SendComplete(t) ==
  /\ tstate[t] = "sending"
  /\ WorkerAlive
  /\ HasPermit(task_ch)
  /\ \A u \in TaskIds : u < t => tstate[u] # "sending"
  /\ task_ch' = Append(task_ch, t)
  /\ tstate' = [tstate EXCEPT ![t] = "queued"]
  /\ UNCHANGED <<wpc, panicked, task_tx, stop_tx, waker_ch, waker, sent,
                 registered, ready, cur, polled, yielded, len, left, spin, iowait,
                 replies, tick_due, ticks, tpc, tw>>
  /\ UNCHANGED <<poolVars, pureVars, srvVars>>

\* A send that gives up when the channel has no room (try_send).
SendFail_Full(t) ==
  /\ tstate[t] = "sending"
  /\ ~WorkerAlive \/ ~HasPermit(task_ch)
  /\ \A u \in TaskIds : u < t => tstate[u] # "sending"
  /\ tstate' = [tstate EXCEPT ![t] = "unsent"]
  /\ UNCHANGED <<wpc, panicked, task_tx, stop_tx, task_ch, waker_ch, waker, sent,
                 registered, ready, cur, polled, yielded, len, left, spin, iowait,
                 replies, tick_due, ticks, tpc, tw>>
  /\ UNCHANGED <<poolVars, pureVars, srvVars>>

\* The send fails with SendError(task): the worker has dropped task_rx.
\* The waiting submitters are released in arrival order.
SendFail(t) ==
  /\ tstate[t] = "sending"
  /\ ~WorkerAlive
  /\ \A u \in TaskIds : u < t => tstate[u] # "sending"
  /\ tstate' = [tstate EXCEPT ![t] = "unsent"]
  /\ UNCHANGED <<wpc, panicked, task_tx, stop_tx, task_ch, waker_ch, waker, sent,
                 registered, ready, cur, polled, yielded, len, left, spin, iowait,
                 replies, tick_due, ticks, tpc, tw>>
  /\ UNCHANGED <<poolVars, pureVars, srvVars>>

\* The Executor is dropped, field by field in declaration order: task_tx
\* first.  No send borrows the Executor at that time.
DropTaskTx ==
  /\ task_tx
  /\ \A t \in TaskIds : tstate[t] # "sending"
  /\ task_tx' = FALSE
  /\ UNCHANGED <<wpc, panicked, stop_tx, task_ch, waker_ch, waker, sent,
                 registered, ready, cur, polled, yielded, len, tstate, left, spin,
                 iowait, replies, tick_due, ticks, tpc, tw>>
  /\ UNCHANGED <<poolVars, pureVars, srvVars>>

\* ... then _stop_tx, which makes stop_rx ready.
DropStopTx ==
  /\ ~task_tx
  /\ stop_tx
  /\ stop_tx' = FALSE
  /\ UNCHANGED <<wpc, panicked, task_tx, task_ch, waker_ch, waker, sent,
                 registered, ready, cur, polled, yielded, len, tstate, left, spin,
                 iowait, replies, tick_due, ticks, tpc, tw>>
  /\ UNCHANGED <<poolVars, pureVars, srvVars>>

\* Time passes: the interval (600 s) has a tick ready.
Tick ==
  /\ wpc \notin {"init", "stopped", "panicked"}
  /\ ~tick_due
  /\ ticks < MaxTicks
  /\ tick_due' = TRUE
  /\ ticks' = ticks + 1
  /\ UNCHANGED <<wpc, panicked, task_tx, stop_tx, task_ch, waker_ch, waker, sent,
                 registered, ready, cur, polled, yielded, len, tstate, left, spin,
                 iowait, replies, tpc, tw>>
  /\ UNCHANGED <<poolVars, pureVars, srvVars>>

-----------------------------------------------------------------------------
(* The worker thread *)

\* The worker thread ends, by `break` (panicking = FALSE) or by unwinding
\* (panicking = TRUE): the FuturesUnordered, both receivers, the Runtime and
\* the PanicNotifier are dropped.  A dropped Task or TaskFuture drops its
\* reply sender, which its requester sees as a cancellation.
WorkerExit(panicking) ==
  /\ wpc' = IF panicking THEN "panicked" ELSE "stopped"
  /\ panicked' = PanicNotifierDrop(panicked, panicking)
  /\ tstate' = [t \in TaskIds |->
                  IF tstate[t] \in {"queued", "accepting", "active"}
                    THEN "cancelled" ELSE tstate[t]]
  /\ task_ch' = <<>>
  /\ waker_ch' = 0
  /\ waker' = 0
  /\ sent' = Collect(sent, Held)
  /\ registered' = {}
  /\ ready' = <<>>
  /\ cur' = {}
  /\ polled' = 0
  /\ yielded' = 0
  /\ len' = 0
  /\ left' = [t \in TaskIds |-> IF tstate[t] = "new" THEN left[t] ELSE 0]
  /\ iowait' = [t \in TaskIds |-> FALSE]
  /\ tick_due' = FALSE
  /\ UNCHANGED <<task_tx, stop_tx, spin, replies, ticks, tpc, tw>>

\* `let rt = Rc::new(f().unwrap())` with f() = Ok.
InitOk ==
  /\ wpc = "init"
  /\ wpc' = "select"
  /\ UNCHANGED <<panicked, task_tx, stop_tx, task_ch, waker_ch, waker, sent,
                 registered, ready, cur, polled, yielded, len, tstate, left, spin,
                 iowait, replies, tick_due, ticks, tpc, tw>>
  /\ UNCHANGED <<poolVars, pureVars, srvVars>>

\* `f().unwrap()` with f() = Err: the worker thread panics.
InitFail ==
  /\ wpc = "init"
  /\ WorkerExit(TRUE)
  /\ UNCHANGED <<poolVars, pureVars, srvVars>>

\* Readiness of the four futures of the select when the worker polls it.
StopReady == ~stop_tx
WakerReady == waker_ch > 0
CleanReady == tick_due
TaskReady == Len(task_ch) > 0
ClosedReady == Len(task_ch) = 0 /\ ~task_tx

\* A select that polls waker_recv before stop_rx.
Selected_WakerFirst ==
  IF WakerReady THEN "waker"
  ELSE IF StopReady THEN "stop"
  ELSE IF CleanReady THEN "clean"
  ELSE IF TaskReady THEN "task"
  ELSE IF ClosedReady THEN "closed"
  ELSE "pending"

\* select(select(stop_rx, waker_recv), select(clean, new_task_recv)) polls
\* its futures in that order and returns the first that is ready.
Selected ==
  IF StopReady THEN "stop"
  ELSE IF WakerReady THEN "waker"
  ELSE IF CleanReady THEN "clean"
  ELSE IF TaskReady THEN "task"
  ELSE IF ClosedReady THEN "closed"
  ELSE "pending"

\* Left((Left(_), _)): break.
SelectStop ==
  /\ wpc = "select"
  /\ Selected = "stop"
  /\ WorkerExit(FALSE)
  /\ UNCHANGED <<poolVars, pureVars, srvVars>>

\* Left((Right(_), _)): a () is received from waker_rx.
SelectWaker ==
  /\ wpc = "select"
  /\ Selected = "waker"
  /\ waker_ch' = waker_ch - 1
  /\ wpc' = "wake"
  /\ UNCHANGED <<panicked, task_tx, stop_tx, task_ch, waker, sent,
                 registered, ready, cur, polled, yielded, len, tstate, left, spin,
                 iowait, replies, tick_due, ticks, tpc, tw>>
  /\ UNCHANGED <<poolVars, pureVars, srvVars>>

\* Right((Left(_), _)) => rt.cleanup()
SelectClean ==
  /\ wpc = "select"
  /\ Selected = "clean"
  /\ tick_due' = FALSE
  /\ UNCHANGED <<wpc, panicked, task_tx, stop_tx, task_ch, waker_ch, waker, sent,
                 registered, ready, cur, polled, yielded, len, tstate, left, spin,
                 iowait, replies, ticks, tpc, tw>>
  /\ UNCHANGED <<poolVars, pureVars, srvVars>>

\* Right((Right((Some(msg), _)), _)): a Task is received from task_rx.
SelectTask ==
  /\ wpc = "select"
  /\ Selected = "task"
  /\ cur' = {Head(task_ch)}
  /\ task_ch' = Tail(task_ch)
  /\ tstate' = [tstate EXCEPT ![Head(task_ch)] = "accepting"]
  /\ wpc' = "accept"
  /\ UNCHANGED <<panicked, task_tx, stop_tx, waker_ch, waker, sent,
                 registered, ready, polled, yielded, len, left, spin,
                 iowait, replies, tick_due, ticks, tpc, tw>>
  /\ UNCHANGED <<poolVars, pureVars, srvVars>>

\* Right((Right((None, _)), _)) => break: every sender is gone and the
\* channel is empty.
SelectClosed ==
  /\ wpc = "select"
  /\ Selected = "closed"
  /\ WorkerExit(FALSE)
  /\ UNCHANGED <<poolVars, pureVars, srvVars>>

\* msg.take(rt.lua()).unwrap() = Some(LocalTask): the TaskFuture is pushed
\* (which puts it on the ready-to-run queue) and waker.wake_by_ref() runs.
AcceptSome ==
  /\ wpc = "accept"
  /\ \E t \in cur :
       /\ tstate' = [tstate EXCEPT ![t] = "active"]
       /\ ready' = Append(ready, t)
  /\ waker_ch' = ChanAfterWake(sent, waker, waker_ch)
  /\ sent' = SentAfterWake(sent, waker)
  /\ cur' = {}
  /\ wpc' = "select"
  /\ UNCHANGED <<panicked, task_tx, stop_tx, task_ch, waker,
                 registered, polled, yielded, len, left, spin,
                 iowait, replies, tick_due, ticks, tpc, tw>>
  /\ UNCHANGED <<poolVars, pureVars, srvVars>>

\* msg.take(rt.lua()).unwrap() = None: nothing is pushed, the Task is dropped.
AcceptNone ==
  /\ wpc = "accept"
  /\ \E t \in cur : tstate' = [tstate EXCEPT ![t] = "cancelled"]
  /\ cur' = {}
  /\ wpc' = "select"
  /\ UNCHANGED <<panicked, task_tx, stop_tx, task_ch, waker_ch, waker, sent,
                 registered, ready, polled, yielded, len, left, spin,
                 iowait, replies, tick_due, ticks, tpc, tw>>
  /\ UNCHANGED <<poolVars, pureVars, srvVars>>

\* msg.take(rt.lua()) = Err: unwrap() panics.
AcceptPanic ==
  /\ wpc = "accept"
  /\ WorkerExit(TRUE)
  /\ UNCHANGED <<poolVars, pureVars, srvVars>>

\* The handler of a wake message begins: `waker = MyWaker::from_tx(..)`,
\* and poll_next registers the new waker and starts its loop.
PollBegin ==
  /\ wpc = "wake"
  /\ waker' = FreshWaker
  /\ sent' = Collect(sent, Held)
  /\ registered' = {FreshWaker}
  /\ len' = Cardinality(Active)
  /\ polled' = 0
  /\ yielded' = 0
  /\ wpc' = "poll"
  /\ UNCHANGED <<panicked, task_tx, stop_tx, task_ch, waker_ch,
                 ready, cur, tstate, left, spin,
                 iowait, replies, tick_due, ticks, tpc, tw>>
  /\ UNCHANGED <<poolVars, pureVars, srvVars>>

\* poll_next finds the ready-to-run queue empty: Ready(None) for an empty
\* set, Pending otherwise; the handler does nothing more.
PollEmpty ==
  /\ wpc = "poll"
  /\ ready = <<>>
  /\ polled' = 0
  /\ yielded' = 0
  /\ len' = 0
  /\ wpc' = "select"
  /\ UNCHANGED <<panicked, task_tx, stop_tx, task_ch, waker_ch, waker, sent,
                 registered, ready, cur, tstate, left, spin,
                 iowait, replies, tick_due, ticks, tpc, tw>>
  /\ UNCHANGED <<poolVars, pureVars, srvVars>>

\* poll_next polls the first task of the queue and it is ready: its result
\* goes to the reply channel, poll_next returns Ready(Some(result)), the
\* handler logs an Err and runs waker.wake_by_ref().
PollReady(ok) ==
  /\ wpc = "poll"
  /\ ready # <<>>
  /\ Head(ready) \notin spin
  /\ ready' = Tail(ready)
  /\ tstate' = [tstate EXCEPT ![Head(ready)] = IF ok THEN "done" ELSE "failed"]
  /\ replies' = [replies EXCEPT ![Head(ready)] = @ + 1]
  /\ waker_ch' = ChanAfterWake(sent, waker, waker_ch)
  /\ sent' = SentAfterWake(sent, waker)
  /\ left' = [left EXCEPT ![Head(ready)] = 0]
  /\ polled' = 0
  /\ yielded' = 0
  /\ len' = 0
  /\ wpc' = "select"
  /\ UNCHANGED <<panicked, task_tx, stop_tx, task_ch, waker,
                 registered, cur, spin,
                 iowait, tick_due, ticks, tpc, tw>>
  /\ UNCHANGED <<poolVars, pureVars, srvVars>>

\* poll_next leaves its loop with Pending after a wake of its own
\* (`cx.waker().wake_by_ref()`) when two futures yielded or every future of
\* the set was polled.
PollStops(p, y) == y >= 2 \/ p = len

\* The polled task returns Pending and waits for the reactor.
PollPendingIo ==
  /\ wpc = "poll"
  /\ ready # <<>>
  /\ Head(ready) \notin spin
  /\ left[Head(ready)] > 0
  /\ ready' = Tail(ready)
  /\ left' = [left EXCEPT ![Head(ready)] = @ - 1]
  /\ iowait' = [iowait EXCEPT ![Head(ready)] = TRUE]
  /\ IF PollStops(polled + 1, yielded)
       THEN /\ waker_ch' = ChanAfterWake(sent, waker, waker_ch)
            /\ sent' = SentAfterWake(sent, waker)
            /\ polled' = 0
            /\ yielded' = 0
            /\ len' = 0
            /\ wpc' = "select"
       ELSE /\ polled' = polled + 1
            /\ UNCHANGED <<waker_ch, sent, yielded, len, wpc>>
  /\ UNCHANGED <<panicked, task_tx, stop_tx, task_ch, waker,
                 registered, cur, tstate, spin,
                 replies, tick_due, ticks, tpc, tw>>
  /\ UNCHANGED <<poolVars, pureVars, srvVars>>

\* The polled task wakes itself during the poll and returns Pending: its
\* wake puts it back on the queue and wakes the registered waker, if any.
PollPendingYield ==
  /\ wpc = "poll"
  /\ ready # <<>>
  /\ Head(ready) \in spin \/ left[Head(ready)] > 0
  /\ ready' = Append(Tail(ready), Head(ready))
  /\ left' = IF Head(ready) \in spin THEN left
             ELSE [left EXCEPT ![Head(ready)] = @ - 1]
  /\ registered' = {}
  /\ LET snt1 == IF registered = {} THEN sent
                 ELSE SentAfterWake(sent, CHOOSE w \in registered : TRUE)
         ch1  == IF registered = {} THEN waker_ch
                 ELSE ChanAfterWake(sent, CHOOSE w \in registered : TRUE, waker_ch)
     IN IF PollStops(polled + 1, yielded + 1)
          THEN /\ waker_ch' = ChanAfterWake(snt1, waker, ch1)
               /\ sent' = SentAfterWake(snt1, waker)
               /\ polled' = 0
               /\ yielded' = 0
               /\ len' = 0
               /\ wpc' = "select"
          ELSE /\ waker_ch' = ch1
               /\ sent' = snt1
               /\ polled' = polled + 1
               /\ yielded' = yielded + 1
               /\ UNCHANGED <<len, wpc>>
  /\ UNCHANGED <<panicked, task_tx, stop_tx, task_ch, waker,
                 cur, tstate, spin,
                 iowait, replies, tick_due, ticks, tpc, tw>>
  /\ UNCHANGED <<poolVars, pureVars, srvVars>>

\* The polled task panics: the worker thread unwinds.
PollPanic ==
  /\ wpc = "poll"
  /\ ready # <<>>
  /\ WorkerExit(TRUE)
  /\ UNCHANGED <<poolVars, pureVars, srvVars>>

-----------------------------------------------------------------------------
(* Reactor threads: the wake of a task whose I/O completed *)

\* The task's waker in the FuturesUnordered puts the task on the
\* ready-to-run queue ...
IoWake(th, t) ==
  /\ tpc[th] = "idle"
  /\ tstate[t] = "active"
  /\ iowait[t]
  /\ iowait' = [iowait EXCEPT ![t] = FALSE]
  /\ ready' = Append(ready, t)
  /\ tpc' = [tpc EXCEPT ![th] = "take"]
  /\ UNCHANGED <<wpc, panicked, task_tx, stop_tx, task_ch, waker_ch, waker, sent,
                 registered, cur, polled, yielded, len, tstate, left, spin,
                 replies, tick_due, ticks, tw>>
  /\ UNCHANGED <<poolVars, pureVars, srvVars>>

\* ... and takes the registered waker, if there is one, to wake it.
TakeWaker(th) ==
  /\ tpc[th] = "take"
  /\ tw' = [tw EXCEPT ![th] = registered]
  /\ registered' = {}
  /\ tpc' = [tpc EXCEPT ![th] = IF registered = {} THEN "idle" ELSE "load"]
  /\ UNCHANGED <<wpc, panicked, task_tx, stop_tx, task_ch, waker_ch, waker, sent,
                 ready, cur, polled, yielded, len, tstate, left, spin,
                 iowait, replies, tick_due, ticks>>
  /\ UNCHANGED <<poolVars, pureVars, srvVars>>

\* MyWaker::wake_by_ref on that waker: `self.sent.load(Relaxed)`
WakeLoad(th) ==
  /\ tpc[th] = "load"
  /\ \E w \in tw[th] :
       /\ tpc' = [tpc EXCEPT ![th] = IF WakeSends(sent, w) THEN "send" ELSE "idle"]
       /\ tw' = [tw EXCEPT ![th] = IF WakeSends(sent, w) THEN @ ELSE {}]
       /\ sent' = IF WakeSends(sent, w) THEN sent
                  ELSE Collect(sent, OwnWaker \cup registered \cup (Held \ {w}))
  /\ UNCHANGED <<wpc, panicked, task_tx, stop_tx, task_ch, waker_ch, waker,
                 registered, ready, cur, polled, yielded, len, tstate, left, spin,
                 iowait, replies, tick_due, ticks>>
  /\ UNCHANGED <<poolVars, pureVars, srvVars>>

\* `let _ = self.tx.send(()); self.sent.store(true, Relaxed)`
WakeSend(th) ==
  /\ tpc[th] = "send"
  /\ waker_ch' = ChanAfterSend(waker_ch)
  /\ \E w \in tw[th] :
       sent' = Collect([sent EXCEPT ![w] = TRUE],
                       OwnWaker \cup registered \cup (Held \ {w}))
  /\ tw' = [tw EXCEPT ![th] = {}]
  /\ tpc' = [tpc EXCEPT ![th] = "idle"]
  /\ UNCHANGED <<wpc, panicked, task_tx, stop_tx, task_ch, waker, 
                 registered, ready, cur, polled, yielded, len, tstate, left, spin,
                 iowait, replies, tick_due, ticks>>
  /\ UNCHANGED <<poolVars, pureVars, srvVars>>

-----------------------------------------------------------------------------
(* Specifications of one Executor *)

Submitter ==
  \E t \in TaskIds : SendStart(t) \/ SendComplete(t) \/ SendFail(t)

Owner == DropTaskTx \/ DropStopTx

WorkerSelect ==
  SelectStop \/ SelectWaker \/ SelectClean \/ SelectTask \/ SelectClosed

WorkerHandle ==
  \/ AcceptSome
  \/ AcceptNone
  \/ PollBegin
  \/ PollEmpty
  \/ \E ok \in BOOLEAN : PollReady(ok)
  \/ PollPendingIo
  \/ PollPendingYield

WorkerPanics == InitFail \/ AcceptPanic \/ PollPanic

Reactor ==
  \E th \in Threads :
    \/ \E t \in TaskIds : IoWake(th, t)
    \/ TakeWaker(th)
    \/ WakeLoad(th)
    \/ WakeSend(th)

Next ==
  \/ Submitter
  \/ Owner
  \/ Tick
  \/ InitOk
  \/ WorkerSelect
  \/ WorkerHandle
  \/ WorkerPanics
  \/ Reactor

Spec == Init /\ [][Next]_vars

ReactorStep(th) ==
  \/ \E t \in TaskIds : IoWake(th, t)
  \/ TakeWaker(th)
  \/ WakeLoad(th)
  \/ WakeSend(th)

\* The worker thread runs on while it has a step to take, a submitter whose
\* permit is free completes its send, the reactor threads run on, and a drop
\* of the Executor that has begun goes on to its last field.
Fairness ==
  /\ WF_vars(InitOk \/ WorkerSelect \/ WorkerHandle \/ WorkerPanics)
  /\ \A t \in 1..NumTasks : WF_vars(SendComplete(t))
  /\ \A th \in 1..NumThreads : WF_vars(ReactorStep(th))
  /\ WF_vars(DropStopTx)

SpecFair == Init /\ [][Next]_vars /\ Fairness

-----------------------------------------------------------------------------
(* Backpressure: more submissions than the channel holds.  Task 1 may wait *)
(* for the reactor or yield; the others complete when first polled.        *)

InitBP == InitExec(NumBPTasks, {1}, {}, 1)

WorkerBP ==
  \/ InitOk
  \/ SelectStop
  \/ SelectWaker
  \/ SelectTask
  \/ SelectClosed
  \/ AcceptSome
  \/ PollBegin
  \/ PollEmpty
  \/ PollReady(TRUE)
  \/ PollPendingIo
  \/ PollPendingYield

NextBP ==
  \/ Submitter
  \/ Owner
  \/ WorkerBP
  \/ WorkerPanics
  \/ Reactor

SpecBP == InitBP /\ [][NextBP]_vars

\* The same with a worker that neither stops nor panics, an Executor that is
\* not dropped, and every thread running on: the worker thread, the
\* submitters, and the reactor completing the I/O of the task that waits.
WorkerLive ==
  \/ InitOk
  \/ SelectWaker
  \/ SelectTask
  \/ AcceptSome
  \/ PollBegin
  \/ PollEmpty
  \/ PollReady(TRUE)
  \/ PollPendingIo
  \/ PollPendingYield

NextLive ==
  \/ Submitter
  \/ WorkerLive
  \/ Reactor

FairLive ==
  /\ WF_vars(WorkerLive)
  /\ WF_vars(\E t \in TaskIds : SendStart(t))
  /\ WF_vars(\E t \in TaskIds : SendComplete(t))
  /\ WF_vars(ReactorStep(1))

SpecLive == InitBP /\ [][NextLive]_vars /\ FairLive

-----------------------------------------------------------------------------
(* Part 2.  The workers of the Sandbox Pool                                *)

\* Executor::is_panicked of worker w.
ExecutorIsPanicked_Never(w) == FALSE

ExecutorIsPanicked(w) == e_panicked[w]

\* The callers whose Task worker w holds, buffered or active.
HeldBy(w) == {e_queue[w][i] : i \in 1..Len(e_queue[w])} \cup e_active[w]

\* The reply channel of a Task that is dropped signals cancellation, and the
\* guard its future held is dropped with it.
Cancelled(cs) ==
  [c \in Clients |->
     IF c \in cs THEN [cl[c] EXCEPT !.reply = "Cancelled", !.g = FALSE] ELSE cl[c]]

\* f() returned a Runtime: the worker enters its loop.
ExInitOk(w) ==
  /\ e_pc[w] = "init"
  /\ e_pc' = [e_pc EXCEPT ![w] = "loop"]
  /\ UNCHANGED <<e_panicked, e_queue, e_active, loaded, rr, svc, lock, nextimpl, cl>>
  /\ UNCHANGED <<execVars, pureVars, srvVars>>

\* The worker thread unwinds: the block_on future is dropped with the
\* Runtime, the channel and the active set; _panic_notifier drops last.
ExUnwind(w) ==
  /\ e_pc' = [e_pc EXCEPT ![w] = "unwinding"]
  /\ e_queue' = [e_queue EXCEPT ![w] = <<>>]
  /\ e_active' = [e_active EXCEPT ![w] = {}]
  /\ loaded' = [loaded EXCEPT ![w] = {}]
  /\ cl' = Cancelled(HeldBy(w))
  /\ UNCHANGED <<e_panicked, rr, svc, lock, nextimpl>>
  /\ UNCHANGED <<execVars, pureVars, srvVars>>

\* f().unwrap() panics: the runtime factory failed.
ExInitFail(w) ==
  /\ e_pc[w] = "init"
  /\ ExUnwind(w)

\* A panic while a Task is accepted (msg.take(..).unwrap()) or polled.
ExPanic(w) ==
  /\ e_pc[w] = "loop"
  /\ HeldBy(w) # {}
  /\ ExUnwind(w)

\* Drop for PanicNotifier, at the end of the unwinding.
ExNotify(w) ==
  /\ e_pc[w] = "unwinding"
  /\ e_pc' = [e_pc EXCEPT ![w] = "panicked"]
  /\ e_panicked' = [e_panicked EXCEPT ![w] = PanicNotifierDrop(@, TRUE)]
  /\ UNCHANGED <<e_queue, e_active, loaded, rr, svc, lock, nextimpl, cl>>
  /\ UNCHANGED <<execVars, pureVars, srvVars>>

\* The select receives a Task and pushes its TaskFuture to the active set.
ExAccept(w) ==
  /\ e_pc[w] = "loop"
  /\ e_queue[w] # <<>>
  /\ e_active' = [e_active EXCEPT ![w] = @ \cup {Head(e_queue[w])}]
  /\ e_queue' = [e_queue EXCEPT ![w] = Tail(@)]
  /\ UNCHANGED <<e_pc, e_panicked, loaded, rr, svc, lock, nextimpl, cl>>
  /\ UNCHANGED <<execVars, pureVars, srvVars>>

CompileOps == {"load", "preload", "hot_update", "cold_update"}

\* The Task of a compilation is polled to completion: the source is
\* evaluated in this worker's Runtime, which then holds the new
\* ServiceImpl's values, or the script fails.
ExPollCompile(w, c, ok) ==
  /\ e_pc[w] = "loop"
  /\ c \in e_active[w]
  /\ cl[c].op \in CompileOps
  /\ e_active' = [e_active EXCEPT ![w] = @ \ {c}]
  /\ loaded' = IF ok THEN [loaded EXCEPT ![w] = @ \cup {cl[c].new}] ELSE loaded
  /\ cl' = [cl EXCEPT ![c].reply = IF ok THEN "ok" ELSE "ScriptError"]
  /\ UNCHANGED <<e_pc, e_panicked, e_queue, rr, svc, lock, nextimpl>>
  /\ UNCHANGED <<execVars, pureVars, srvVars>>

\* RunningService::try_upgrade: the handle has no tombstone and still is the
\* handle of the Running service.  A handle is named by the ServiceImpl it
\* leads to, negated once a stop has put the tombstone in it.
TryUpgrade(n, h) == h > 0 /\ svc[n].st = "running" /\ svc[n].impl = h

\* The error of a try_upgrade that fails: the service was stopped, or the
\* handle was replaced and its ServiceImpl is gone.
TryUpgradeError(n, h) == IF h < 0 THEN "ServiceStopped" ELSE "ServiceDropped"

\* A Runtime that does not compile the service it is asked to run.
EnsureLoaded_Missing(ld, i) == ld

\* Sandbox::handle_request compiles the service in this worker's Runtime
\* when the Runtime does not hold it yet.
EnsureLoaded(ld, i) == ld \cup {i}

\* The Task of a request is polled: handle_request takes the guard and
\* makes sure this Runtime holds the service ...
ExPollUpgrade(w, c) ==
  /\ e_pc[w] = "loop"
  /\ c \in e_active[w]
  /\ cl[c].op = "request"
  /\ ~cl[c].g
  /\ IF TryUpgrade(cl[c].name, cl[c].h)
       THEN /\ cl' = [cl EXCEPT ![c].g = TRUE]
            /\ loaded' = [loaded EXCEPT ![w] = EnsureLoaded(@, cl[c].h)]
            /\ UNCHANGED e_active
       ELSE /\ cl' = [cl EXCEPT ![c].reply = TryUpgradeError(cl[c].name, cl[c].h)]
            /\ e_active' = [e_active EXCEPT ![w] = @ \ {c}]
            /\ UNCHANGED loaded
  /\ UNCHANGED <<e_pc, e_panicked, e_queue, rr, svc, lock, nextimpl>>
  /\ UNCHANGED <<execVars, pureVars, srvVars>>

\* ... and the service's entry point has run: the response is written to
\* the reply channel and the guard is dropped.
ExPollRespond(w, c) ==
  /\ e_pc[w] = "loop"
  /\ c \in e_active[w]
  /\ cl[c].op = "request"
  /\ cl[c].g
  /\ cl' = [cl EXCEPT ![c].reply = "ok", ![c].g = FALSE]
  /\ e_active' = [e_active EXCEPT ![w] = @ \ {c}]
  /\ UNCHANGED <<e_pc, e_panicked, e_queue, loaded, rr, svc, lock, nextimpl>>
  /\ UNCHANGED <<execVars, pureVars, srvVars>>

-----------------------------------------------------------------------------
(* The Sandbox Pool: scope                                                 *)

NextWorker(w) == (w % NumWorkers) + 1

\* scope begins: the round-robin counter is fetched and advanced.
ScopeBegin(c, r) ==
  /\ rr' = (rr + 1) % NumWorkers
  /\ cl' = [cl EXCEPT ![c] = [r EXCEPT !.pc = "select",
                                      !.w = (rr % NumWorkers) + 1,
                                      !.seen = {}]]

\* The operation of caller c ends with error e (with "ok").
Finish(c, r, e) == cl' = [cl EXCEPT ![c] = [r EXCEPT !.pc = "done", !.res = e]]

\* The selected worker is observed as panicked: advance to the next one, or
\* fail when every worker has been observed as panicked.
ScopeSkip(c) ==
  /\ cl[c].pc = "select"
  /\ ExecutorIsPanicked(cl[c].w)
  /\ LET seen == cl[c].seen \cup {cl[c].w} IN
       IF seen = Workers
         THEN Finish(c, [cl[c] EXCEPT !.seen = seen], "PoolUnavailable")
         ELSE cl' = [cl EXCEPT ![c].seen = seen, ![c].w = NextWorker(cl[c].w)]
  /\ UNCHANGED <<e_pc, e_panicked, e_queue, e_active, loaded, rr, svc, lock, nextimpl>>
  /\ UNCHANGED <<execVars, pureVars, srvVars>>

\* The selected worker is not panicked: Executor::send.  The send fails when
\* the worker has dropped its end of the channel.
ScopeSend(c) ==
  /\ cl[c].pc = "select"
  /\ ~ExecutorIsPanicked(cl[c].w)
  /\ IF e_pc[cl[c].w] \in {"init", "loop"}
       THEN /\ HasPermit(e_queue[cl[c].w])
            /\ e_queue' = [e_queue EXCEPT ![cl[c].w] = Append(@, c)]
            /\ cl' = [cl EXCEPT ![c].pc = "await"]
       ELSE /\ Finish(c, cl[c], "ChannelClosed")
            /\ UNCHANGED e_queue
  /\ UNCHANGED <<e_pc, e_panicked, e_active, loaded, rr, svc, lock, nextimpl>>
  /\ UNCHANGED <<execVars, pureVars, srvVars>>

-----------------------------------------------------------------------------
(* The Service Pool, through the Hive facade                               *)

\* The callers holding a RunningServiceGuard of the service named n.
Guards(n) == {c \in Clients : cl[c].g /\ cl[c].name = n}

\* stop puts the tombstone in the Running handle of the service named n:
\* every caller that holds the handle without a guard, its operation under
\* way and not replied to, holds a dead handle.
Tombstoned(n, cs) ==
  [d \in Clients |->
     IF /\ cs[d].name = n /\ cs[d].h > 0 /\ ~cs[d].g
        /\ cs[d].pc # "done" /\ cs[d].reply = "none"
       THEN [cs[d] EXCEPT !.h = 0 - cs[d].h] ELSE cs[d]]

\* ServicePool::get_running: the handle of the entry of name n (0: no
\* entry).  While a stop drains the guards the entry still is the Running
\* one, its handle holding the tombstone; the handle of a Stopped service is
\* the tombstone too, so that a request routed to it fails in try_upgrade
\* with ServiceStopped.
RunningHandle(n) ==
  IF svc[n].st = "running" THEN svc[n].impl ELSE 0 - svc[n].impl

\* The characters of a ServiceName: ASCII letters, digits, '-' and '_'.
NameChars == {"a", "z", "A", "Z", "0", "9", "-", "_"}

\* A validation that only refuses the empty name.
ValidName_NonEmpty(str) == str # <<>>

\* ServiceName: a non-empty string of the characters of a name.
ValidName(str) == str # <<>> /\ \A i \in 1..Len(str) : str[i] \in NameChars

\* The string that is the name of entry n, and the names that are refused.
NameString(n) == <<"A", "z", "0", "-", "_">> \o [i \in 1..n |-> "9"]
InvalidNames == {<<>>, <<"a", "!">>}
ServiceNames == {NameString(n) : n \in Names} \cup InvalidNames

\* The entry of the pool a name stands for (for a string that is not the
\* name of an entry: the entry it would share).
KeyOf(str) ==
  IF \E n \in Names : NameString(n) = str
    THEN CHOOSE n \in Names : NameString(n) = str
    ELSE (Len(str) % NumNames) + 1

\* The name given to load, hot_update or cold_update is refused: the
\* operation fails before it takes an entry or compiles.
Refuse(c, op, str) ==
  /\ Finish(c, [cl[c] EXCEPT !.op = op, !.arg = str], "InvalidServiceName")
  /\ UNCHANGED <<e_pc, e_panicked, e_queue, e_active, loaded, rr, svc, lock, nextimpl>>
  /\ UNCHANGED <<execVars, pureVars, srvVars>>

\* Caller c takes the entry of name n for operation op.
Enter(c, n, op) ==
  [cl[c] EXCEPT !.op = op, !.name = n, !.pre = svc[n].st, !.preimpl = svc[n].impl]

\* The compilation of a new ServiceImpl is handed to the Sandbox Pool.
Compile(c, r) ==
  /\ nextimpl <= MaxImpls
  /\ nextimpl' = nextimpl + 1
  /\ ScopeBegin(c, [r EXCEPT !.new = nextimpl])

\* ServicePool::load, called for operation op: compiles, and registers the
\* service as Stopped; a Stopped service of that name is replaced.
PoolLoad(c, str, op) ==
  /\ cl[c].pc = "idle"
  /\ IF ~ValidName(str) THEN Refuse(c, op, str)
     ELSE LET n == KeyOf(str)
              r == [Enter(c, n, op) EXCEPT !.arg = str] IN
       /\ lock[n] = 0
       /\ lock' = [lock EXCEPT ![n] = c]
       /\ IF svc[n].st = "running"
            THEN Finish(c, r, "ServiceLive") /\ UNCHANGED <<rr, nextimpl>>
            ELSE Compile(c, r)
       /\ UNCHANGED <<e_pc, e_panicked, e_queue, e_active, loaded, svc>>
       /\ UNCHANGED <<execVars, pureVars, srvVars>>

\* Hive::load_service
Load(c, str) == PoolLoad(c, str, "load")

\* Hive::preload_service: load with the given uuid, then
\* assert!(replaced.is_none()).
Preload(c, str) == PoolLoad(c, str, "preload")

\* The ServiceImpl load reports as replaced (0: none), and what
\* preload_service returns after its assertion.
Replaced(r) == IF r.pre = "stopped" THEN r.preimpl ELSE 0
AfterAssert(r) == IF Replaced(r) = 0 THEN "ok" ELSE "AssertionFailed"

\* Hive::start_service
Start(c, n) ==
  /\ cl[c].pc = "idle"
  /\ lock[n] = 0
  /\ lock' = [lock EXCEPT ![n] = c]
  /\ IF svc[n].st = "stopped"
       THEN /\ svc' = [svc EXCEPT ![n].st = "running"]
            /\ Finish(c, Enter(c, n, "start"), "ok")
       ELSE /\ Finish(c, Enter(c, n, "start"),
                      IF svc[n].st = "absent" THEN "ServiceNotFound" ELSE "ServiceLive")
            /\ UNCHANGED svc
  /\ UNCHANGED <<e_pc, e_panicked, e_queue, e_active, loaded, rr, nextimpl>>
  /\ UNCHANGED <<execVars, pureVars, srvVars>>

\* Hive::stop_service: the Running handle is replaced by a tombstone, then
\* the outstanding guards are awaited.
Stop(c, n) ==
  /\ cl[c].pc = "idle"
  /\ lock[n] = 0
  /\ lock' = [lock EXCEPT ![n] = c]
  /\ IF svc[n].st = "running"
       THEN /\ svc' = [svc EXCEPT ![n].st = "stopping"]
            /\ cl' = Tombstoned(n, [cl EXCEPT ![c] = [Enter(c, n, "stop") EXCEPT !.pc = "drain"]])
       ELSE /\ Finish(c, Enter(c, n, "stop"),
                      IF svc[n].st = "absent" THEN "ServiceNotFound" ELSE "ServiceStopped")
            /\ UNCHANGED svc
  /\ UNCHANGED <<e_pc, e_panicked, e_queue, e_active, loaded, rr, nextimpl>>
  /\ UNCHANGED <<execVars, pureVars, srvVars>>

\* A stop that does not wait for the guards.
Drained_NoWait(n) == TRUE

\* Every guard of the service has been dropped.
Drained(n) == Guards(n) = {}

\* The stop returns: the service is Stopped, owned by the pool.
StopFinish(c) ==
  /\ cl[c].pc = "drain"
  /\ cl[c].op = "stop"
  /\ Drained(cl[c].name)
  /\ svc' = [svc EXCEPT ![cl[c].name].st = "stopped"]
  /\ Finish(c, cl[c], "ok")
  /\ UNCHANGED <<e_pc, e_panicked, e_queue, e_active, loaded, rr, lock, nextimpl>>
  /\ UNCHANGED <<execVars, pureVars, srvVars>>

\* A remove that takes a Running service for a Stopped one.
CanRemove_Live(st) == st # "absent"

\* Only a Stopped service is removed.
CanRemove(st) == st = "stopped"

\* Hive::remove_service
Remove(c, n) ==
  /\ cl[c].pc = "idle"
  /\ lock[n] = 0
  /\ lock' = [lock EXCEPT ![n] = c]
  /\ IF CanRemove(svc[n].st)
       THEN /\ svc' = [svc EXCEPT ![n] = [st |-> "absent", impl |-> 0, id |-> 0]]
            /\ Finish(c, Enter(c, n, "remove"), "ok")
       ELSE /\ Finish(c, Enter(c, n, "remove"),
                      IF svc[n].st = "absent" THEN "ServiceNotFound" ELSE "ServiceLive")
            /\ UNCHANGED svc
  /\ UNCHANGED <<e_pc, e_panicked, e_queue, e_active, loaded, rr, nextimpl>>
  /\ UNCHANGED <<execVars, pureVars, srvVars>>

\* Hive::hot_update_service
HotUpdate(c, str) ==
  /\ cl[c].pc = "idle"
  /\ IF ~ValidName(str) THEN Refuse(c, "hot_update", str)
     ELSE LET n == KeyOf(str)
              r == [Enter(c, n, "hot_update") EXCEPT !.arg = str] IN
       /\ lock[n] = 0
       /\ lock' = [lock EXCEPT ![n] = c]
       /\ IF svc[n].st = "running"
            THEN Compile(c, r)
            ELSE /\ Finish(c, r, IF svc[n].st = "absent" THEN "ServiceNotFound"
                                 ELSE "ServiceStopped")
                 /\ UNCHANGED <<rr, nextimpl>>
       /\ UNCHANGED <<e_pc, e_panicked, e_queue, e_active, loaded, svc>>
       /\ UNCHANGED <<execVars, pureVars, srvVars>>

\* Hive::cold_update_or_create_service
ColdUpdate(c, str) ==
  /\ cl[c].pc = "idle"
  /\ IF ~ValidName(str) THEN Refuse(c, "cold_update", str)
     ELSE LET n == KeyOf(str) IN
       /\ lock[n] = 0
       /\ lock' = [lock EXCEPT ![n] = c]
       /\ Compile(c, [Enter(c, n, "cold_update") EXCEPT !.arg = str])
       /\ UNCHANGED <<e_pc, e_panicked, e_queue, e_active, loaded, svc>>
       /\ UNCHANGED <<execVars, pureVars, srvVars>>

\* The cold update of a Running service has drained the guards: swap, start.
ColdFinish(c) ==
  /\ cl[c].pc = "drain"
  /\ cl[c].op = "cold_update"
  /\ Drained(cl[c].name)
  /\ svc' = [svc EXCEPT ![cl[c].name] = [@ EXCEPT !.st = "running", !.impl = cl[c].new]]
  /\ Finish(c, cl[c], "ok")
  /\ UNCHANGED <<e_pc, e_panicked, e_queue, e_active, loaded, rr, lock, nextimpl>>
  /\ UNCHANGED <<execVars, pureVars, srvVars>>

\* Hive::get_running_service and Hive::run_service: a request for the
\* service is run on a worker through scope.
Request(c, n) ==
  /\ cl[c].pc = "idle"
  /\ IF RunningHandle(n) # 0
       THEN ScopeBegin(c, [cl[c] EXCEPT !.op = "request", !.name = n, !.h = RunningHandle(n)])
       ELSE /\ Finish(c, [cl[c] EXCEPT !.op = "request", !.name = n], "ServiceNotFound")
            /\ UNCHANGED rr
  /\ UNCHANGED <<e_pc, e_panicked, e_queue, e_active, loaded, svc, lock, nextimpl>>
  /\ UNCHANGED <<execVars, pureVars, srvVars>>

\* An observer that sees the tombstone as a state of its own.
View_Tombstone(n) ==
  CASE svc[n].st = "absent" -> "NoEntry"
    [] svc[n].st = "stopped" -> "Stopped"
    [] svc[n].st = "running" -> "Running"
    [] OTHER -> "Tombstone"

\* ServicePool::get and ServicePool::list: the variant of the entry of
\* name n, as Service::Running or Service::Stopped.
View(n) ==
  CASE svc[n].st = "absent" -> "NoEntry"
    [] svc[n].st = "stopped" -> "Stopped"
    [] svc[n].st \in {"running", "stopping"} -> "Running"
    [] OTHER -> svc[n].st

\* Hive::get_service
GetService(c, n) ==
  /\ cl[c].pc = "idle"
  /\ Finish(c, [cl[c] EXCEPT !.op = "get_service", !.name = n],
            IF View(n) = "NoEntry" THEN "ServiceNotFound" ELSE View(n))
  /\ UNCHANGED <<e_pc, e_panicked, e_queue, e_active, loaded, rr, svc, lock, nextimpl>>
  /\ UNCHANGED <<execVars, pureVars, srvVars>>

\* Hive::list_services: the iteration comes to the entry of name n.
List(c, n) ==
  /\ cl[c].pc = "idle"
  /\ Finish(c, [cl[c] EXCEPT !.op = "list", !.name = n], View(n))
  /\ UNCHANGED <<e_pc, e_panicked, e_queue, e_active, loaded, rr, svc, lock, nextimpl>>
  /\ UNCHANGED <<execVars, pureVars, srvVars>>

\* The handler `get`: get_running_service(name)? ...
Get(c, n) ==
  /\ cl[c].pc = "idle"
  /\ IF RunningHandle(n) # 0
       THEN cl' = [cl EXCEPT ![c] = [cl[c] EXCEPT !.op = "get", !.name = n,
                                                 !.h = RunningHandle(n),
                                                 !.pc = "upgrade"]]
       ELSE Finish(c, [cl[c] EXCEPT !.op = "get", !.name = n], "ServiceNotFound")
  /\ UNCHANGED <<e_pc, e_panicked, e_queue, e_active, loaded, rr, svc, lock, nextimpl>>
  /\ UNCHANGED <<execVars, pureVars, srvVars>>

\* A handler that takes the guard without looking at the tombstone.
GetUpgrade_Unchecked(c) ==
  /\ cl[c].pc = "upgrade"
  /\ cl' = [cl EXCEPT ![c].g = TRUE, ![c].pc = "respond"]
  /\ UNCHANGED <<e_pc, e_panicked, e_queue, e_active, loaded, rr, svc, lock, nextimpl>>
  /\ UNCHANGED <<execVars, pureVars, srvVars>>

\* ... service.try_upgrade()? ...
GetUpgrade(c) ==
  /\ cl[c].pc = "upgrade"
  /\ IF TryUpgrade(cl[c].name, cl[c].h)
       THEN cl' = [cl EXCEPT ![c].g = TRUE, ![c].pc = "respond"]
       ELSE Finish(c, cl[c], TryUpgradeError(cl[c].name, cl[c].h))
  /\ UNCHANGED <<e_pc, e_panicked, e_queue, e_active, loaded, rr, svc, lock, nextimpl>>
  /\ UNCHANGED <<execVars, pureVars, srvVars>>

\* ... json_response(StatusCode::OK, guard): the guard is serialized and
\* dropped.
GetRespond(c) ==
  /\ cl[c].pc = "respond"
  /\ Finish(c, [cl[c] EXCEPT !.g = FALSE], "ok")
  /\ UNCHANGED <<e_pc, e_panicked, e_queue, e_active, loaded, rr, svc, lock, nextimpl>>
  /\ UNCHANGED <<execVars, pureVars, srvVars>>

\* A hot update that registers the new ServiceImpl as a new service.
HotSwap_NewId(s, new) == [s EXCEPT !.impl = new, !.id = new]

\* hot_update swaps the handle of the Running service for one to the new
\* ServiceImpl; the ServiceId stays.
HotSwap(s, new) == [s EXCEPT !.impl = new]

\* scope's caller receives the reply; the operation goes on with it.
ScopeReturn(c) ==
  /\ cl[c].pc = "await"
  /\ cl[c].reply # "none"
  /\ LET n == cl[c].name
         new == [st |-> "stopped", impl |-> cl[c].new,
                 id |-> IF cl[c].op \in {"load", "preload"} \/ svc[n].id = 0 THEN cl[c].new
                        ELSE svc[n].id] IN
       IF cl[c].reply # "ok" THEN Finish(c, cl[c], cl[c].reply) /\ UNCHANGED svc
       ELSE IF cl[c].op = "load" THEN Finish(c, cl[c], "ok") /\ svc' = [svc EXCEPT ![n] = new]
       ELSE IF cl[c].op = "preload"
         THEN Finish(c, cl[c], AfterAssert(cl[c])) /\ svc' = [svc EXCEPT ![n] = new]
       ELSE IF cl[c].op = "hot_update"
         THEN Finish(c, cl[c], "ok") /\ svc' = [svc EXCEPT ![n] = HotSwap(@, cl[c].new)]
       ELSE IF cl[c].op = "cold_update" /\ cl[c].pre = "running"
         THEN /\ cl' = Tombstoned(n, [cl EXCEPT ![c].pc = "drain"])
              /\ svc' = [svc EXCEPT ![n].st = "stopping"]
       ELSE IF cl[c].op = "cold_update"
         THEN Finish(c, cl[c], "ok") /\ svc' = [svc EXCEPT ![n] = new]
       ELSE Finish(c, cl[c], "ok") /\ UNCHANGED svc
  /\ UNCHANGED <<e_pc, e_panicked, e_queue, e_active, loaded, rr, lock, nextimpl>>
  /\ UNCHANGED <<execVars, pureVars, srvVars>>

\* The operation has returned to its caller: the entry is released.
Return(c) ==
  /\ cl[c].pc = "done"
  /\ cl' = [cl EXCEPT ![c] = IdleClient]
  /\ lock' = [n \in Names |-> IF lock[n] = c THEN 0 ELSE lock[n]]
  /\ UNCHANGED <<e_pc, e_panicked, e_queue, e_active, loaded, rr, svc, nextimpl>>
  /\ UNCHANGED <<execVars, pureVars, srvVars>>

-----------------------------------------------------------------------------
(* Specification of the pools *)

InitPool == InitExec(0, {}, {}, 0)

Facade ==
  \E c \in Clients, n \in Names :
    \/ \E str \in ServiceNames : Load(c, str)
    \/ \E str \in ServiceNames : Preload(c, str)
    \/ Start(c, n)
    \/ Stop(c, n)
    \/ Remove(c, n)
    \/ \E str \in ServiceNames : HotUpdate(c, str)
    \/ \E str \in ServiceNames : ColdUpdate(c, str)
    \/ Request(c, n)
    \/ GetService(c, n)
    \/ List(c, n)
    \/ Get(c, n)

Caller ==
  \E c \in Clients :
    \/ ScopeSkip(c)
    \/ ScopeSend(c)
    \/ ScopeReturn(c)
    \/ StopFinish(c)
    \/ ColdFinish(c)
    \/ GetUpgrade(c)
    \/ GetRespond(c)
    \/ Return(c)

PoolWorker ==
  \E w \in Workers :
    \/ ExInitOk(w)
    \/ ExInitFail(w)
    \/ ExAccept(w)
    \/ ExPanic(w)
    \/ ExNotify(w)
    \/ \E c \in Clients :
         \/ \E ok \in BOOLEAN : ExPollCompile(w, c, ok)
         \/ ExPollUpgrade(w, c)
         \/ ExPollRespond(w, c)

NextPool == Facade \/ Caller \/ PoolWorker

SpecPool == InitPool /\ [][NextPool]_vars

-----------------------------------------------------------------------------
(* Part 3: values and their conversions *)

(* error.rs *)

\* Payloads of the kinds that carry a string.
Payloads == {"a", "b"}

\* Errors of the libraries: mlua, tokio::io, regex, hyper.  An mlua error is
\* a plain one or an ExternalError around a value (here: an Error).
Plain(lib, msg) == [lib |-> lib, msg |-> msg, inner |-> <<>>]

\* mlua::Error::external(x)
External(x) == [lib |-> "mlua", msg |-> "ExternalError", inner |-> <<x>>]

\* enum ErrorKind: a kind with a payload, or one made #[from] a library error.
Kind(variant, payload) == [variant |-> variant, payload |-> payload, source |-> <<>>]

\* #[from]: ErrorKind::from(error)
KindFrom(f) ==
  [variant |-> CASE f.lib = "mlua" -> "Lua"
                 [] f.lib = "io" -> "Io"
                 [] f.lib = "regex" -> "Regex"
                 [] OTHER -> "Hyper",
   payload |-> "", source |-> <<f>>]

\* The match that captures a backtrace for every kind but InvalidServiceName.
Backtrace_NameOnly(kind) ==
  IF kind.variant = "InvalidServiceName" THEN "None" ELSE "Some"

\* let backtrace = match kind { ... }
Backtrace(kind) ==
  IF kind.variant \in {"InvalidServiceName", "ServiceNotFound", "ServicePathNotFound",
                       "ServiceExists", "ServiceLive", "ServiceStopped"}
    THEN "None" ELSE "Some"

\* impl From<ErrorKind> for Error
ErrorFrom(kind) == [kind |-> kind, backtrace |-> Backtrace(kind)]

\* A conversion that wraps every Error, a script-runtime one included.
IntoLua_Wrap(x) == External(x)

\* impl From<Error> for mlua::Error
IntoLua(x) ==
  IF x.kind.variant = "Lua" THEN x.kind.source[1] ELSE External(x)

\* The kinds the core constructs, and the library errors it converts.
CoreKinds ==
  {Kind(v, p) : v \in {"InvalidServiceName", "ServiceNotFound", "ServicePathNotFound",
                        "ServiceExists", "ServiceLive", "ServiceStopped",
                        "PermissionNotGranted", "LuaCustom"},
                p \in Payloads}
    \cup {Kind("ServiceDropped", "")}

LibErrors ==
  {Plain(lib, msg) : lib \in {"mlua", "io", "regex", "hyper"}, msg \in Payloads}

\* Conversions of one value in a row.
MaxConv == 2

\* An ErrorKind is constructed.
NewKind(k) ==
  /\ conv.kind = <<>> /\ conv.foreign = <<>> /\ conv.error = <<>>
  /\ conv.n < MaxConv
  /\ conv' = [conv EXCEPT !.kind = <<k>>, !.lua = <<>>, !.n = @ + 1]
  /\ UNCHANGED <<execVars, poolVars, pm, norm, srvVars>>

\* ErrorKind::from(error): a library error is made a kind.
NewForeign(f) ==
  /\ conv.kind = <<>> /\ conv.foreign = <<>> /\ conv.error = <<>>
  /\ conv.n < MaxConv
  /\ conv' = [conv EXCEPT !.foreign = <<f>>, !.kind = <<KindFrom(f)>>,
                          !.lua = <<>>, !.n = @ + 1]
  /\ UNCHANGED <<execVars, poolVars, pm, norm, srvVars>>

\* An error a script raised comes back from the script runtime.
Raised ==
  /\ conv.lua # <<>> /\ conv.error # <<>>
  /\ conv.n < MaxConv
  /\ conv' = [kind |-> <<KindFrom(conv.lua[1])>>, foreign |-> conv.lua,
              error |-> <<>>, lua |-> <<>>, n |-> conv.n + 1]
  /\ UNCHANGED <<execVars, poolVars, pm, norm, srvVars>>

\* kind.into(): impl From<ErrorKind> for Error
IntoError ==
  /\ conv.kind # <<>> /\ conv.error = <<>>
  /\ conv' = [conv EXCEPT !.error = <<ErrorFrom(conv.kind[1])>>]
  /\ UNCHANGED <<execVars, poolVars, pm, norm, srvVars>>

\* error.into(): impl From<Error> for mlua::Error
ErrorIntoLua ==
  /\ conv.error # <<>> /\ conv.lua = <<>>
  /\ conv' = [conv EXCEPT !.lua = <<IntoLua(conv.error[1])>>]
  /\ UNCHANGED <<execVars, poolVars, pm, norm, srvVars>>

\* The value is dropped.
DropError ==
  /\ conv.error # <<>> /\ conv.n = MaxConv
  /\ conv' = NoConv
  /\ UNCHANGED <<execVars, poolVars, pm, norm, srvVars>>

InitError == InitExec(0, {}, {}, 0)

NextError ==
  \/ \E k \in CoreKinds : NewKind(k)
  \/ \E f \in LibErrors : NewForeign(f)
  \/ Raised
  \/ IntoError
  \/ ErrorIntoLua
  \/ DropError

SpecError == InitError /\ [][NextError]_vars

(* path.rs *)

\* A string is the sequence of its characters.
\* Longest pattern and longest path tried.
MaxPatLen == 4
MaxPathLen == 3

PatternChars == {"/", ":", "*", "a", "."}
PathChars == {"/", "a", ".", "\n"}

Strings(chars, n) == UNION {[1..k -> chars] : k \in 0..n}

\* The pattern and the path of the documented example.
UsersPattern == <<"/", "u", "s", "e", "r", "s", "/", ":", "i", "d", "/", "*">>
UsersPath == <<"/", "u", "s", "e", "r", "s", "/", "4", "2", "/", "a", "/", "b">>

\* Pieces of a compiled regex: one character, `.`, `(.*)` and `([^/]+)`.
Lit(c) == [a |-> "lit", c |-> c]
Dot == [a |-> "dot", c |-> ""]
StarGroup == [a |-> "star", c |-> ""]
SegGroup == [a |-> "seg", c |-> ""]

\* Literal text put into the regex as it is: `.` stays a metacharacter.
Escape_Raw(str) == [i \in 1..Len(str) |-> IF str[i] = "." THEN Dot ELSE Lit(str[i])]

\* regex::escape
Escape(str) == [i \in 1..Len(str) |-> Lit(str[i])]

\* PATH_PARAMS_REGEX, first alternative, at the ':' in position i: the
\* position of the last character of the name (i when there is no name).
NameEnd(m, i) ==
  LET ends == {j \in i..Len(m) : \A k \in (i + 1)..j : m[k] # "/"} IN
    CHOOSE j \in ends : \A k \in ends : k <= j

\* for captures in PATH_PARAMS_REGEX.captures_iter(matcher) { .. }: the regex
\* and the parameter names from position pos on.
RECURSIVE CapturesIter(_, _)
CapturesIter(m, pos) ==
  IF pos > Len(m) THEN [regex |-> <<>>, param_names |-> <<>>]
  ELSE IF m[pos] = ":" /\ NameEnd(m, pos) > pos
    THEN LET j == NameEnd(m, pos)
             rest == CapturesIter(m, j + 1) IN
           [regex |-> <<SegGroup>> \o rest.regex,
            param_names |-> <<SubSeq(m, pos + 1, j)>> \o rest.param_names]
  ELSE IF m[pos] = "*"
    THEN LET rest == CapturesIter(m, pos + 1) IN
           [regex |-> <<StarGroup>> \o rest.regex,
            param_names |-> <<(<<"*">>)>> \o rest.param_names]
  ELSE LET rest == CapturesIter(m, pos + 1) IN
           [regex |-> Escape(<<m[pos]>>) \o rest.regex,
            param_names |-> rest.param_names]

\* What a piece of the regex accepts as one character.
Accepts(atom, ch) ==
  CASE atom.a = "lit" -> ch = atom.c
    [] atom.a = "dot" -> ch # "\n"
    [] atom.a = "star" -> ch # "\n"
    [] OTHER -> ch # "/"

\* Regex::captures on a regex anchored at both ends: the groups of the
\* first match in the order the engine tries them (every group as long
\* as the rest allows), <<groups>> or << >> when there is no match.
RECURSIVE Captures(_, _, _, _)
Captures(regex, i, str, pos) ==
  IF i > Len(regex) THEN (IF pos = Len(str) + 1 THEN << <<>> >> ELSE <<>>)
  ELSE IF regex[i].a \in {"lit", "dot"}
    THEN IF pos <= Len(str) /\ Accepts(regex[i], str[pos])
           THEN Captures(regex, i + 1, str, pos + 1) ELSE <<>>
  ELSE LET least == IF regex[i].a = "seg" THEN 1 ELSE 0
           lens == {k \in least..(Len(str) + 1 - pos) :
                      /\ \A q \in pos..(pos + k - 1) : Accepts(regex[i], str[q])
                      /\ Captures(regex, i + 1, str, pos + k) # <<>>} IN
         IF lens = {} THEN <<>>
         ELSE LET k == CHOOSE x \in lens : \A y \in lens : y <= x IN
                << <<SubSeq(str, pos, pos + k - 1)>>
                     \o Captures(regex, i + 1, str, pos + k)[1] >>

\* HashMap::insert: the map is a set of <<name, value>>, one for a name.
Insert(map, name, value) == {e \in map : e[1] # name} \cup {<<name, value>>}

\* .zip(..).filter_map(..).collect::<HashMap<_, _>>()
RECURSIVE CollectParams(_, _, _)
CollectParams(names, groups, i) ==
  IF i = 0 THEN {} ELSE Insert(CollectParams(names, groups, i - 1), names[i], groups[i])

\* PathMatcher::new
PathMatcherNew(matcher) ==
  /\ pm.pc = "none"
  /\ LET c == CapturesIter(matcher, 1) IN
       pm' = [pm EXCEPT !.pc = "new", !.path = matcher,
                        !.regex = (IF matcher # <<>> /\ matcher[1] = "/" THEN <<>>
                                   ELSE Escape(<<"/">>)) \o c.regex,
                        !.param_names = c.param_names]
  /\ UNCHANGED <<execVars, poolVars, conv, norm, srvVars>>

\* PathMatcher::gen_params: params is << >> for None and <<map>> for Some.
GenParams(path) ==
  /\ pm.pc = "new"
  /\ LET captures == Captures(pm.regex, 1, path, 1) IN
       pm' = [pm EXCEPT !.pc = "matched", !.arg = path,
                        !.params = IF captures = <<>> THEN <<>>
                                   ELSE <<CollectParams(pm.param_names, captures[1],
                                                  Len(pm.param_names))>>]
  /\ UNCHANGED <<execVars, poolVars, conv, norm, srvVars>>

InitPath == InitExec(0, {}, {}, 0)

NextPath ==
  \/ \E matcher \in Strings(PatternChars, MaxPatLen) \cup {UsersPattern} :
       PathMatcherNew(matcher)
  \/ \E path \in Strings(PathChars, MaxPathLen) \cup {UsersPath} : GenParams(path)

SpecPath == InitPath /\ [][NextPath]_vars

(* path.rs: normalize_path_str *)

\* Longest path normalized.
MaxNormLen == 5

NormChars == {"/", "\\", ".", "a"}

\* path.split(['/', '\\']): the pieces between the separators, from
\* position pos on, the piece under way being cur.
RECURSIVE SplitPath(_, _, _)
SplitPath(str, pos, piece) ==
  IF pos > Len(str) THEN <<piece>>
  ELSE IF str[pos] \in {"/", "\\"} THEN <<piece>> \o SplitPath(str, pos + 1, <<>>)
  ELSE SplitPath(str, pos + 1, Append(piece, str[pos]))

\* .filter(|&x| x != "" && x != ".")
Segments(str) ==
  SelectSeq(SplitPath(str, 1, <<>>), LAMBDA x : x # <<>> /\ x # <<".">>)

\* A pop that leaves ".." when there is nothing to remove.
Pop_Escape(vec) ==
  IF vec = <<>> THEN << <<".", ".">> >> ELSE SubSeq(vec, 1, Len(vec) - 1)

\* Vec::pop: nothing happens on an empty Vec.
Pop(vec) == IF vec = <<>> THEN vec ELSE SubSeq(vec, 1, Len(vec) - 1)

\* for s in segments { if s == ".." { result.pop(); } else { result.push(s); } }
RECURSIVE Resolve(_, _)
Resolve(segs, i) ==
  IF i = 0 THEN <<>>
  ELSE IF segs[i] = <<".", ".">> THEN Pop(Resolve(segs, i - 1))
  ELSE Append(Resolve(segs, i - 1), segs[i])

\* result.join("/")
RECURSIVE Join(_, _)
Join(vec, i) ==
  IF i = 0 THEN <<>>
  ELSE IF i = 1 THEN vec[1]
  ELSE Join(vec, i - 1) \o <<"/">> \o vec[i]

\* normalize_path_str
NormalizePathStr(path) ==
  LET result == Resolve(Segments(path), Len(Segments(path))) IN
    Join(result, Len(result))

\* normalize_path_str is called on a path ...
Normalize(path) ==
  /\ norm.pc = "none"
  /\ norm' = [norm EXCEPT !.pc = "once", !.path = path,
                          !.result = NormalizePathStr(path)]
  /\ UNCHANGED <<execVars, poolVars, conv, pm, srvVars>>

\* ... and on what it returned.
NormalizeAgain ==
  /\ norm.pc = "once"
  /\ norm' = [norm EXCEPT !.pc = "twice", !.again = NormalizePathStr(norm.result)]
  /\ UNCHANGED <<execVars, poolVars, conv, pm, srvVars>>

NextNorm ==
  \/ \E path \in Strings(NormChars, MaxNormLen) : Normalize(path)
  \/ NormalizeAgain

SpecNorm == InitExec(0, {}, {}, 0) /\ [][NextNorm]_vars

(* hive-server, handle/mod.rs: start_stop *)

\* The pools once every service has been loaded (and is Stopped) by a
\* first caller and the workers run their loops.
PoolServing ==
  /\ e_pc = [w \in Workers |-> "loop"]
  /\ e_panicked = [w \in Workers |-> FALSE]
  /\ e_queue = [w \in Workers |-> <<>>]
  /\ e_active = [w \in Workers |-> {}]
  /\ loaded = [w \in Workers |-> IF w = 1 THEN Names ELSE {}]
  /\ rr = NumNames
  /\ svc = [n \in Names |-> [st |-> "stopped", impl |-> n, id |-> n]]
  /\ lock = [n \in Names |-> 0]
  /\ nextimpl = NumNames + 1
  /\ cl = [c \in Clients |-> IdleClient]

InitServer == ExecInit(0, {}, {}, 0) /\ PoolServing /\ PureInit /\ ServerInit

\* ?op= of a PATCH /services/:name; "restart" is no Operation.
Queries == {"start", "stop", "restart"}

\* let Query { op } = serde_qs::from_str(query)?;
StartStopBegin(c, n, query) ==
  /\ ep[c].pc = "idle"
  /\ cl[c].pc = "idle"
  /\ ep' = [ep EXCEPT ![c] =
              IF query \in {"start", "stop"}
                THEN [pc |-> "core", op |-> query, name |-> n, core |-> "none"]
                ELSE [pc |-> "error", op |-> "none", name |-> n, core |-> "none"]]
  /\ UNCHANGED <<meta, execVars, poolVars, pureVars>>

\* state.hive.start_service(name) / state.hive.stop_service(name) is called.
StartStopCore(c) ==
  /\ ep[c].pc = "core"
  /\ IF ep[c].op = "start" THEN Start(c, ep[c].name) ELSE Stop(c, ep[c].name)

\* .await: the result of the core is there.
AwaitCore(c) ==
  /\ ep[c].pc = "core"
  /\ cl[c].pc = "done"
  /\ ep' = [ep EXCEPT ![c].pc = "returning", ![c].core = cl[c].res]
  /\ UNCHANGED <<meta, execVars, poolVars, pureVars>>

\* The call into the core has returned (the entry is free again).
CoreReturn(c) == ep[c].pc = "returning" /\ Return(c)

\* `?` on the result of the core: its error is the endpoint's.
CoreFailed(c) ==
  /\ ep[c].pc = "returning"
  /\ cl[c].pc = "idle"
  /\ ep[c].core # "ok"
  /\ ep' = [ep EXCEPT ![c].pc = "error"]
  /\ UNCHANGED <<meta, execVars, poolVars, pureVars>>

\* |m| m.started = true / false
Written(m, n, started) == [m EXCEPT ![n] = started]

\* modify_metadata(&metadata_path, |m| m.started = ..).await?  It writes
\* the file (ok) or fails with an I/O error and leaves it as it was.
ModifyMetadata(c, ok) ==
  /\ ep[c].pc = "returning"
  /\ cl[c].pc = "idle"
  /\ ep[c].core = "ok"
  /\ meta' = IF ok THEN Written(meta, ep[c].name, ep[c].op = "start") ELSE meta
  /\ ep' = [ep EXCEPT ![c].pc = IF ok THEN "ok" ELSE "error"]
  /\ UNCHANGED <<execVars, poolVars, pureVars>>

\* The response (200 or the error's) has been sent.
Respond(c) ==
  /\ ep[c].pc \in {"ok", "error"}
  /\ ep' = [ep EXCEPT ![c] = IdleEndpoint]
  /\ UNCHANGED <<meta, execVars, poolVars, pureVars>>

NextServer ==
  \E c \in Clients :
    \/ \E n \in Names, query \in Queries : StartStopBegin(c, n, query)
    \/ StartStopCore(c)
    \/ StopFinish(c)
    \/ AwaitCore(c)
    \/ CoreReturn(c)
    \/ CoreFailed(c)
    \/ \E ok \in BOOLEAN : ModifyMetadata(c, ok)
    \/ Respond(c)

SpecServer == InitServer /\ [][NextServer]_vars

-----------------------------------------------------------------------------
(* Claims *)

\* C1: the waker channel never holds more than one unconsumed re-poll
\* message, however the wake_by_ref calls on one waker interleave.
C1_AtMostOneMessage == waker_ch <= 1

\* C2: at most Capacity Tasks are buffered in the task channel; a submitter
\* waiting in send while Capacity are buffered keeps waiting, and when its
\* send completes its Task is the one appended to the channel.
C2_BoundedBackpressure ==
  /\ [](Len(task_ch) <= Capacity)
  /\ [][\A t \in TaskIds :
          /\ (tstate[t] = "sending" /\ Len(task_ch) = Capacity)
               => tstate'[t] = "sending"
          /\ (tstate[t] = "sending" /\ tstate'[t] # "sending" /\ WorkerAlive)
               => (tstate'[t] = "queued" /\ task_ch' = Append(task_ch, t))]_vars

\* A submitter waits in send while the channel is full.
C2_Witness ==
  /\ Len(task_ch) = Capacity
  /\ \E t \in TaskIds : tstate[t] = "sending"

\* C9: once _stop_tx is dropped the worker leaves its loop; a worker at the
\* select with the stop signal ready takes no other branch (it consumes no
\* wake message, no tick and no Task); when it stops, every Task it holds is
\* dropped without a reply, which its requester sees as a cancellation; and a
\* worker that has left its loop holds no Task.
C9_ShutdownOnDrop ==
  /\ (~stop_tx) ~> ~WorkerAlive
  /\ [][(wpc = "select" /\ StopReady)
          => \/ wpc' = "stopped"
             \/ /\ wpc' = "select"
                /\ waker_ch' >= waker_ch
                /\ tick_due => tick_due'
                /\ Len(task_ch') >= Len(task_ch)]_vars
  /\ [][(wpc # "stopped" /\ wpc' = "stopped")
          => \A t \in TaskIds :
               tstate[t] \in {"queued", "accepting", "active"}
                 => (tstate'[t] = "cancelled" /\ replies'[t] = 0)]_vars
  /\ [](~WorkerAlive
          => \A t \in TaskIds : tstate[t] \notin {"queued", "accepting", "active"})

\* The worker is at the select with the stop signal ready, a wake message
\* pending, a Task queued and a TaskFuture in the active set.
C9_Witness ==
  /\ wpc = "select"
  /\ StopReady
  /\ WakerReady
  /\ TaskReady
  /\ Active # {}

\* C10: every task on the ready-to-run queue is polled in the end, and while
\* tasks keep waking the loop still handles a ready stop signal, a queued
\* Task and a due cleanup tick.
C10_Responsive ==
  /\ \A t \in 1..NumTasks :
       (tstate[t] = "active" /\ t \in {ready[i] : i \in 1..Len(ready)})
         ~> \/ tstate[t] # "active"
            \/ t \notin {ready[i] : i \in 1..Len(ready)}
            \/ wpc = "poll" /\ Head(ready) = t
  /\ StopReady ~> ~WorkerAlive
  /\ \A t \in 1..NumTasks : (tstate[t] = "queued") ~> (tstate[t] # "queued")
  /\ tick_due ~> ~tick_due

-----------------------------------------------------------------------------
(* Claims about the pools *)

Events == {"load", "start", "stop", "remove", "hot_update", "cold_update"}

\* The lifecycle table: the state a listed (state, event) pair leads to ...
TableTarget(pre, ev) ==
  CASE pre = "absent" /\ ev = "load" -> "stopped"
    [] pre = "stopped" /\ ev = "start" -> "running"
    [] pre = "running" /\ ev = "stop" -> "stopped"
    [] pre = "stopped" /\ ev = "remove" -> "absent"
    [] pre = "running" /\ ev = "hot_update" -> "running"
    [] pre = "stopped" /\ ev = "cold_update" -> "stopped"
    [] pre = "running" /\ ev = "cold_update" -> "running"
    [] OTHER -> "none"

\* ... or the error it fails with.
TableError(pre, ev) ==
  CASE pre = "running" /\ ev = "remove" -> "ServiceLive"
    [] pre = "stopped" /\ ev = "hot_update" -> "ServiceStopped"
    [] OTHER -> "none"

\* Caller c has completed an operation on a pair the table lists.
Settled(c) ==
  /\ cl[c].pc = "done"
  /\ cl[c].op \in Events
  /\ TableTarget(cl[c].pre, cl[c].op) # "none" \/ TableError(cl[c].pre, cl[c].op) # "none"

\* The service the operation of c found.
Before(c) == [st |-> cl[c].pre, impl |-> cl[c].preimpl, id |-> svc[cl[c].name].id]

\* The outcome is the one the table lists.
AsListed(c) ==
  LET s == svc[cl[c].name]
      target == TableTarget(cl[c].pre, cl[c].op) IN
    \/ /\ target # "none"
       /\ cl[c].res = "ok"
       /\ s.st = target
       /\ s.impl = IF cl[c].op \in CompileOps THEN cl[c].new
                   ELSE IF cl[c].op = "remove" THEN 0 ELSE cl[c].preimpl
       /\ cl[c].op \in CompileOps => s.impl # cl[c].preimpl
    \/ /\ target = "none"
       /\ cl[c].res = TableError(cl[c].pre, cl[c].op)
       /\ s = Before(c)

\* The errors of a run on the Sandbox Pool.
SandboxErrors == {"PoolUnavailable", "ChannelClosed", "Cancelled", "ScriptError"}

\* The compilation the operation needs has failed on the Sandbox Pool.
CompileFailed(c) ==
  /\ cl[c].op \in CompileOps
  /\ cl[c].res \in SandboxErrors
  /\ svc[cl[c].name] = Before(c)

C4_StopDrainsGuards ==
  /\ [](\A n \in Names : svc[n].st \in {"stopped", "absent"} => Guards(n) = {})
  /\ [](\A c \in Clients :
          cl[c].op = "stop" /\ cl[c].pc = "drain" => svc[cl[c].name].st = "stopping")
  /\ [][\A c \in Clients :
          (cl[c].op = "stop" /\ cl[c].pc = "drain" /\ cl'[c].pc # "drain")
            => /\ Guards(cl[c].name) = {}
               /\ cl'[c].pc = "done" /\ cl'[c].res = "ok"
               /\ svc'[cl[c].name].st = "stopped"]_vars

\* A stop waits for a guard taken before it began.
C4_Witness ==
  \E c \in Clients :
    cl[c].op = "stop" /\ cl[c].pc = "drain" /\ Guards(cl[c].name) # {}

\* C5: whichever worker scope selected, the worker that runs a request of a
\* service holds the values of the service's ServiceImpl in its Runtime.
C5_SingleWorkerPinning ==
  \A w \in Workers : \A c \in e_active[w] :
    cl[c].op = "request" /\ cl[c].g => cl[c].h \in loaded[w]

\* A request runs on a worker while another worker holds the service too.
C5_Witness ==
  \E w \in Workers : \E c \in e_active[w] : \E v \in Workers \ {w} :
    cl[c].op = "request" /\ cl[c].g /\ cl[c].h \in loaded[v]

\* C6: a worker whose thread has panicked has its flag set, and only such a
\* worker has; the panic of one worker changes nothing of another worker
\* (flag, channel, active set), and a worker in its loop goes on accepting
\* the Tasks of its channel.
C6_PanicIsolation ==
  /\ [](\A w \in Workers : ExecutorIsPanicked(w) <=> e_pc[w] = "panicked")
  /\ [](\A w \in Workers :
          e_pc[w] = "loop" /\ e_queue[w] # <<>> => ENABLED ExAccept(w))
  /\ [][\A w \in Workers :
          (e_pc'[w] # e_pc[w] /\ e_pc'[w] \in {"unwinding", "panicked"})
            => \A v \in Workers \ {w} :
                 /\ e_pc'[v] = e_pc[v]
                 /\ e_panicked'[v] = e_panicked[v]
                 /\ e_queue'[v] = e_queue[v]
                 /\ e_active'[v] = e_active[v]]_vars

\* One worker has panicked, another one is polling a Task.
C6_Witness ==
  \E w, v \in Workers :
    /\ e_pc[w] = "panicked" /\ ExecutorIsPanicked(w)
    /\ e_pc[v] = "loop" /\ ~ExecutorIsPanicked(v) /\ e_active[v] # {}

\* C7: scope submits only to a worker whose flag it read as false, it goes
\* from a worker it observed as panicked to the next one, it observes no
\* worker twice, and with every worker panicked it fails with
\* pool-unavailable and submits nothing.
C7_SkipsPanicked ==
  /\ [](\A c \in Clients : cl[c].pc = "await" => cl[c].w \notin cl[c].seen)
  /\ [](\A c \in Clients : cl[c].res = "PoolUnavailable"
          => cl[c].seen = Workers /\ \A w \in Workers : e_panicked[w])
  /\ [](\A c \in Clients : cl[c].pc = "select"
          => ENABLED (ScopeSkip(c) \/ ScopeSend(c)))
  /\ [][\A c \in Clients :
          (/\ cl[c].pc = "select"
           /\ <<cl'[c].pc, cl'[c].w, cl'[c].seen>> # <<cl[c].pc, cl[c].w, cl[c].seen>>) =>
          IF e_panicked[cl[c].w]
            THEN /\ e_queue' = e_queue
                 /\ cl[c].w \notin cl[c].seen
                 /\ cl'[c].seen = cl[c].seen \cup {cl[c].w}
                 /\ IF cl[c].seen \cup {cl[c].w} = Workers
                      THEN cl'[c].pc = "done" /\ cl'[c].res = "PoolUnavailable"
                      ELSE cl'[c].pc = "select" /\ cl'[c].w = NextWorker(cl[c].w)
            ELSE cl'[c].pc = "await"
                   => e_queue'[cl[c].w] = Append(e_queue[cl[c].w], c)]_vars
  /\ [][\A c \in Clients :
          (cl[c].pc = "select" /\ \A w \in Workers : e_panicked[w])
            => cl'[c].pc \in {"select", "done"} /\ e_queue' = e_queue
               /\ (cl'[c].pc = "done" => cl'[c].res = "PoolUnavailable")]_vars

\* scope has skipped a panicked worker and submitted to the next one.
C7_Witness ==
  \E c \in Clients : cl[c].pc = "await" /\ cl[c].seen # {}

Handles(n) ==
  {c \in Clients : /\ cl[c].name = n /\ cl[c].h > 0 /\ ~cl[c].g
                   /\ cl[c].pc # "done" /\ cl[c].reply = "none"}

\* C12: a guard is taken only on a live handle of a service that is Running
\* (never once a stop has put the tombstone, so never beside a stop that has
\* drained); when a stop begins, every handle held without a guard becomes
\* a dead one and stays so; a get or a request on a dead handle ends with
\* ServiceStopped (a request may fail on the Sandbox Pool before), and a
\* try_upgrade on the live handle of the Running service succeeds.
C12_GuardRespectsStop ==
  /\ [](\A c \in Clients : cl[c].g =>
          cl[c].h > 0 /\ svc[cl[c].name].st \in {"running", "stopping"})
  /\ [](\A c \in Clients :
          (cl[c].pc = "done" /\ cl[c].op \in {"get", "request"} /\ cl[c].h < 0)
            => cl[c].res \in {"ServiceStopped"} \cup
                 (IF cl[c].op = "request" THEN SandboxErrors ELSE {}))
  /\ [][\A c \in Clients :
          /\ (~cl[c].g /\ cl'[c].g)
                => cl[c].h > 0 /\ svc[cl[c].name].st = "running"
                   /\ svc[cl[c].name].impl = cl[c].h
          /\ \A n \in Names :
                (svc[n].st = "running" /\ svc'[n].st = "stopping" /\ c \in Handles(n))
                  => cl'[c].h = 0 - cl[c].h
          /\ (cl[c].h < 0 /\ cl'[c].pc # "idle") => cl'[c].h = cl[c].h
          /\ (cl[c].pc = "upgrade" /\ cl'[c].pc # "upgrade")
                => IF cl[c].h = RunningHandle(cl[c].name) /\ cl[c].h > 0
                     THEN cl'[c].g
                     ELSE ~cl'[c].g /\ cl'[c].pc = "done"
                          /\ (cl[c].h < 0 => cl'[c].res = "ServiceStopped")]_vars

\* A get took its handle, a stop came, and try_upgrade failed with
\* ServiceStopped; the service is Stopped now.
C12_Witness ==
  \E c \in Clients :
    /\ cl[c].op = "get" /\ cl[c].pc = "done" /\ cl[c].res = "ServiceStopped"
    /\ svc[cl[c].name].st = "stopped"

\* C13: a guard refers to one ServiceImpl from the moment it is taken until
\* it is dropped, a hot update included; a guard is taken on the
\* ServiceImpl the service has at that moment (the new one once the update
\* has completed); the hot update leaves the ServiceId and the guards alone;
\* and a remove of the Running service fails with ServiceLive and leaves it
\* Running with its ServiceImpl.
C13_HotUpdateUnderGuard ==
  /\ [](\A c \in Clients :
          (cl[c].pc = "done" /\ cl[c].op = "remove" /\ cl[c].pre = "running")
            => /\ cl[c].res = "ServiceLive"
               /\ svc[cl[c].name].st = "running"
               /\ svc[cl[c].name].impl = cl[c].preimpl)
  /\ [][\A c \in Clients :
          /\ (cl[c].g /\ cl'[c].g) => cl'[c].h = cl[c].h /\ cl'[c].name = cl[c].name
          /\ (~cl[c].g /\ cl'[c].g) => cl[c].h = svc[cl[c].name].impl]_vars
  /\ [][\A n \in Names :
          (svc[n].st = "running" /\ svc'[n].st = "running" /\ svc'[n].impl # svc[n].impl)
            => /\ svc'[n].id = svc[n].id
               /\ \A c \in Guards(n) : cl'[c] = cl[c]]_vars

\* After a hot update a guard still refers to the old ServiceImpl, and a
\* remove has failed with ServiceLive.
C13_Witness ==
  \E c, d \in Clients :
    /\ cl[c].g /\ svc[cl[c].name].st = "running" /\ cl[c].h # svc[cl[c].name].impl
    /\ cl[d].op = "remove" /\ cl[d].pc = "done" /\ cl[d].res = "ServiceLive"
    /\ cl[d].name = cl[c].name

\* C14: an Error constructed from an ErrorKind has no backtrace when the kind
\* is InvalidServiceName and a captured backtrace for every other kind.
C14_BacktracePolicy ==
  \A i \in 1..Len(conv.error) :
    conv.error[i].backtrace = "None" <=> conv.error[i].kind.variant = "InvalidServiceName"

\* C19: a script-runtime (mlua) error made an Error and made a script-runtime
\* error again is the error it was; an Error of any other kind made a
\* script-runtime error is an external error around that Error, kind included.
C19_LuaRoundTrip ==
  /\ (/\ conv.foreign # <<>> /\ conv.error # <<>> /\ conv.lua # <<>>
      /\ conv.foreign[1].lib = "mlua")
       => conv.lua[1] = conv.foreign[1]
  /\ (/\ conv.error # <<>> /\ conv.lua # <<>>
      /\ conv.error[1].kind.variant # "Lua")
       => /\ conv.lua[1].lib = "mlua"
          /\ conv.lua[1].msg = "ExternalError"
          /\ Len(conv.lua[1].inner) = 1
          /\ conv.lua[1].inner[1].kind = conv.error[1].kind

\* An external script-runtime error around a ServiceStopped Error has come
\* back from a script, was made an Error and a script-runtime error again.
C19_Witness ==
  /\ conv.foreign # <<>> /\ conv.error # <<>> /\ conv.lua # <<>>
  /\ conv.foreign[1].lib = "mlua"
  /\ conv.foreign[1].inner # <<>>
  /\ conv.foreign[1].inner[1].kind.variant = "ServiceStopped"
  /\ conv.lua = conv.foreign

\* The tokens of a pattern from position pos on: a `:name` (a ':' and the
\* characters up to the next '/'), a `*`, or one literal character.
RECURSIVE PatternTokens(_, _)
PatternTokens(m, pos) ==
  IF pos > Len(m) THEN <<>>
  ELSE IF m[pos] = ":" /\ pos < Len(m) /\ m[pos + 1] # "/"
    THEN LET j == CHOOSE j \in (pos + 1)..Len(m) :
                    /\ \A k \in (pos + 1)..j : m[k] # "/"
                    /\ (j = Len(m) \/ m[j + 1] = "/") IN
           <<[t |-> "param", s |-> SubSeq(m, pos + 1, j)]>> \o PatternTokens(m, j + 1)
  ELSE IF m[pos] = "*"
    THEN <<[t |-> "param", s |-> <<"*">>]>> \o PatternTokens(m, pos + 1)
  ELSE <<[t |-> "lit", s |-> <<m[pos]>>]>> \o PatternTokens(m, pos + 1)

\* Every way to read str from pos on as the tokens from i on: the values of
\* the parameter tokens, one for each, in the order of the tokens.  stars
\* says which tokens are wildcards, barred the characters a wildcard may not
\* hold.
RECURSIVE Readings(_, _, _, _, _, _)
Readings(toks, stars, barred, i, str, pos) ==
  IF i > Len(toks) THEN (IF pos = Len(str) + 1 THEN {<<>>} ELSE {})
  ELSE IF toks[i].t = "lit"
    THEN IF pos <= Len(str) /\ str[pos] = toks[i].s[1]
           THEN Readings(toks, stars, barred, i + 1, str, pos + 1) ELSE {}
  ELSE UNION {
         {<<SubSeq(str, pos, pos + k - 1)>> \o r :
            r \in Readings(toks, stars, barred, i + 1, str, pos + k)} :
         k \in {k \in (IF i \in stars THEN 0 ELSE 1)..(Len(str) + 1 - pos) :
                  \A q \in pos..(pos + k - 1) :
                    IF i \in stars THEN str[q] \notin barred ELSE str[q] # "/"}}

\* The parameter tokens among the tokens, in their order.
ParamTokens(toks) == SelectSeq(toks, LAMBDA tok : tok.t = "param")

\* The positions of the wildcards among the tokens of a pattern: a `*` that
\* is not the name of a `:name`.
RECURSIVE StarPositions(_, _, _)
StarPositions(m, pos, i) ==
  IF pos > Len(m) THEN {}
  ELSE IF m[pos] = ":" /\ pos < Len(m) /\ m[pos + 1] # "/"
    THEN LET j == CHOOSE j \in (pos + 1)..Len(m) :
                    /\ \A k \in (pos + 1)..j : m[k] # "/"
                    /\ (j = Len(m) \/ m[j + 1] = "/") IN
           StarPositions(m, j + 1, i + 1)
  ELSE IF m[pos] = "*" THEN {i} \cup StarPositions(m, pos + 1, i + 1)
  ELSE StarPositions(m, pos + 1, i + 1)

\* The mapping of the documented example: {id: "42", *: "a/b"}.
UsersParams == {<< <<"i", "d">>, <<"4", "2">> >>, << <<"*">>, <<"a", "/", "b">> >>}

\* C15 as claimed: gen_params returns a mapping exactly when the whole path
\* reads as the pattern, every `:name` as one non-empty run without '/' and
\* every `*` as what remains, and the mapping binds the name of every token,
\* in the order of the tokens, to what the token reads; `/users/:id/*` on
\* `/users/42/a/b` yields {id: "42", *: "a/b"}.
C15_PathMatching ==
  pm.pc = "matched" =>
    LET toks == PatternTokens(pm.path, 1)
        names == ParamTokens(toks)
        rs == Readings(toks, StarPositions(pm.path, 1, 1), {}, 1, pm.arg, 1) IN
      /\ pm.params # <<>> <=> rs # {}
      /\ pm.params # <<>> =>
            \E r \in rs : pm.params[1] = {<<names[i].s, r[i]>> : i \in 1..Len(names)}
      /\ (pm.path = UsersPattern /\ pm.arg = UsersPath) => pm.params = <<UsersParams>>

\* C15 as amended: a pattern that does not begin with '/' is read as if it
\* did, a `*` reads no line feed, and a name that several tokens have is
\* bound to what the last of them reads.
C15_PathMatchingAmended ==
  pm.pc = "matched" =>
    LET m == IF pm.path # <<>> /\ pm.path[1] = "/" THEN pm.path ELSE <<"/">> \o pm.path
        toks == PatternTokens(m, 1)
        names == ParamTokens(toks)
        rs == Readings(toks, StarPositions(m, 1, 1), {"\n"}, 1, pm.arg, 1) IN
      /\ pm.params # <<>> <=> rs # {}
      /\ pm.params # <<>> =>
            \E r \in rs :
              pm.params[1] = {<<names[i].s, r[i]>> : i \in {i \in 1..Len(names) :
                                \A j \in (i + 1)..Len(names) : names[j].s # names[i].s}}
      /\ (pm.path = UsersPattern /\ pm.arg = UsersPath) => pm.params = <<UsersParams>>

\* gen_params has returned the mapping of the documented example.
C15_Witness ==
  /\ pm.pc = "matched" /\ pm.path = UsersPattern /\ pm.arg = UsersPath
  /\ pm.params = <<UsersParams>>

\* The operations that take a ServiceName.
NamedOps == {"load", "preload", "hot_update", "cold_update"}

\* The string is not a non-empty string of letters, digits, '-' and '_'.
BadName(str) == str = <<>> \/ \E i \in 1..Len(str) : str[i] \notin NameChars

\* C16: a load, hot_update or cold_update_or_create whose name is not a
\* non-empty string of ASCII letters, digits, '-' and '_' fails with
\* InvalidServiceName at once; the call submits no Task to a worker and
\* leaves the Service Pool as it is.
C16_NameValidationFirst ==
  /\ [](\A c \in Clients :
          (cl[c].op \in NamedOps /\ BadName(cl[c].arg))
            => cl[c].pc = "done" /\ cl[c].res = "InvalidServiceName")
  /\ [][\A c \in Clients :
          (cl[c].pc = "idle" /\ cl'[c].op \in NamedOps /\ BadName(cl'[c].arg))
            => UNCHANGED <<e_pc, e_panicked, e_queue, e_active, loaded, rr, svc,
                           lock, nextimpl>>]_vars

\* A load with the name "a!" has failed while the name of an entry is a
\* string that is accepted.
C16_Witness ==
  \E c \in Clients :
    /\ cl[c].op = "load" /\ cl[c].arg = <<"a", "!">>
    /\ cl[c].res = "InvalidServiceName"
    /\ \E d \in Clients : cl[d].op = "load" /\ cl[d].res = "ok" /\ ~BadName(cl[d].arg)

\* C17: when poll_next yields a task whose result is an error, the task
\* leaves the active set and its requester gets the reply, the panicked flag
\* stays false, the worker has signalled itself (a message is in the waker
\* channel and the flag of its waker is set) and is back at its select; no
\* other task and no other reply changes.
C17_FailingTaskContinues ==
  [][\A t \in TaskIds :
       (tstate[t] # "failed" /\ tstate'[t] = "failed")
         => /\ wpc = "poll" /\ wpc' = "select"
            /\ t \in Active /\ t \notin Active'
            /\ \A i \in 1..Len(ready') : ready'[i] # t
            /\ replies'[t] = replies[t] + 1
            /\ ~panicked /\ ~panicked'
            /\ waker' = waker /\ sent'[waker]
            /\ waker_ch' >= 1
            /\ task_ch' = task_ch
            /\ \A u \in TaskIds \ {t} :
                 tstate'[u] = tstate[u] /\ replies'[u] = replies[u]]_vars

\* After the first task has failed the worker has received the second one.
C17_Witness ==
  /\ tstate[1] = "failed" /\ tstate[2] = "accepting"
  /\ wpc = "accept" /\ ~panicked

\* C18: a send fails exactly when the worker has dropped the receiving end
\* of the task channel, which it does before the Executor is dropped only by
\* a panic; a send on a full channel of a live worker stays waiting; and
\* the send that fails leaves its Task with the caller: the Task is in no
\* channel, is not dropped and has no reply.
C18_SendFailsIffReceiverGone ==
  /\ [][\A t \in TaskIds :
          /\ (tstate[t] = "sending" /\ tstate'[t] = "unsent")
               => /\ ~WorkerAlive /\ wpc = "panicked"
                  /\ task_ch' = task_ch
                  /\ \A i \in 1..Len(task_ch) : task_ch[i] # t
                  /\ replies'[t] = 0
          /\ (tstate[t] = "sending" /\ tstate'[t] # "sending")
               => tstate'[t] = (IF WorkerAlive THEN "queued" ELSE "unsent")]_vars
  /\ [](\A t \in TaskIds :
          (tstate[t] = "sending" /\ \A u \in TaskIds : u < t => tstate[u] # "sending")
            => /\ ENABLED SendFail(t) <=> ~WorkerAlive
               /\ ~WorkerAlive => ~ENABLED SendComplete(t)
               /\ (WorkerAlive /\ Len(task_ch) = Capacity)
                    => ~ENABLED SendFail(t) /\ ~ENABLED SendComplete(t))
  /\ [](~WorkerAlive /\ task_tx /\ stop_tx => wpc = "panicked" /\ panicked)

\* The worker has panicked with a full channel, and the send that waited for
\* room has failed.
C18_Witness ==
  /\ wpc = "panicked"
  /\ Cardinality({u \in TaskIds : tstate[u] = "cancelled"}) >= Capacity
  /\ \E t \in TaskIds : tstate[t] = "unsent"

\* C20: whenever the worker waits at its select, no wake_by_ref call is
\* under way, and the ready-to-run queue of the active set holds a task (one
\* pushed and not yet polled, or one woken since its last poll; a completed
\* task is drained by the poll that completes it), a message is in the waker
\* channel.  While the worker's current waker has its flag set, a message is
\* in the channel as well.
C20_NoLostWakeup ==
  /\ (/\ wpc = "select"
      /\ ready # <<>>
      /\ \A th \in Threads : tpc[th] = "idle")
       => waker_ch >= 1
  /\ (wpc = "select" /\ sent[waker]) => waker_ch >= 1

\* A reactor thread wakes the old waker, whose flag is set, after the worker
\* has consumed the message and before it installs the fresh waker.
C20_Witness ==
  /\ wpc = "wake"
  /\ sent[waker]
  /\ \E th \in Threads : tpc[th] = "load" /\ tw[th] = {waker}

\* C21: the panicked flag of the Executor starts false, never goes from true
\* to false, is set only by the step in which the worker thread unwinds from
\* a panic, and is false after the worker has left its loop by the stop
\* signal or by the closed task channel.
C21_PanickedMonotonePrecise ==
  /\ ~panicked
  /\ [][panicked => panicked']_vars
  /\ [][(~panicked /\ panicked') => (wpc # "panicked" /\ wpc' = "panicked")]_vars
  /\ [][(wpc # "stopped" /\ wpc' = "stopped")
          => /\ wpc = "select" /\ Selected \in {"stop", "closed"}
             /\ ~panicked']_vars
  /\ [](wpc = "stopped" => ~panicked)
  /\ [](wpc = "panicked" => panicked)

\* The worker has completed a task and then left its loop without a panic.
C21_Witness ==
  /\ wpc = "stopped" /\ ~panicked
  /\ \E t \in TaskIds : tstate[t] = "done"

\* C22: a preload_service whose load has succeeded finds no replaced
\* ServiceImpl: its assertion holds, and the name had no service before.
C22_PreloadNeverReplaces ==
  \A c \in Clients :
    (cl[c].op = "preload" /\ cl[c].pc = "done" /\ cl[c].reply = "ok")
      => /\ cl[c].res = "ok"
         /\ cl[c].pre = "absent" /\ cl[c].preimpl = 0

\* The string reads as segments none of which is empty, "." or "..",
\* with one '/' between two of them and none before or after: every run
\* between two '/' (or an end) is a segment.
Confined(str) ==
  /\ \A i \in 1..Len(str) : str[i] # "\\"
  /\ str # <<>> => str[1] # "/" /\ str[Len(str)] # "/"
  /\ \A i \in 1..(Len(str) - 1) : ~(str[i] = "/" /\ str[i + 1] = "/")
  /\ \A i \in 1..Len(str) : \A j \in i..Len(str) :
       (/\ i = 1 \/ str[i - 1] = "/"
        /\ j = Len(str) \/ str[j + 1] = "/"
        /\ \A k \in i..j : str[k] # "/")
         => SubSeq(str, i, j) \notin {<<".">>, <<".", ".">>}

\* C23: what normalize_path_str returns has no empty, "." or ".." segment
\* and no '/' at its ends (a ".." with nothing to remove leaves nothing
\* behind, so a path of ".." segments alone gives the empty path), and
\* normalize_path_str returns it unchanged when given it again.
C23_NormalForm ==
  /\ norm.pc # "none" => Confined(norm.result)
  /\ (/\ norm.pc # "none"
      /\ \A seg \in {Segments(norm.path)[i] : i \in 1..Len(Segments(norm.path))} :
           seg = <<".", ".">>)
       => norm.result = <<>>
  /\ norm.pc = "twice" => norm.again = norm.result

\* "../a" has been normalized to "a", twice.
C23_Witness ==
  /\ norm.pc = "twice"
  /\ norm.path = <<".", ".", "/", "a">>
  /\ norm.result = <<"a">> /\ norm.again = <<"a">>

\* The metadata of a service changes only in a step of an endpoint whose
\* call into the core has returned Ok, to what that endpoint was asked.
MetadataAfterCore ==
  [][\A n \in Names :
       meta'[n] # meta[n]
         => \E c \in Clients :
              /\ ep[c].name = n /\ ep[c].core = "ok" /\ cl[c].pc = "idle"
              /\ ep'[c].pc = "ok"
              /\ meta'[n] = (ep[c].op = "start")]_vars

\* An endpoint whose call into the core failed returns the error with
\* the metadata as it was.
FailedCoreKeepsMetadata ==
  [][\A c \in Clients :
       (ep[c].core \notin {"none", "ok"} /\ ep'[c] # ep[c]) => meta' = meta]_vars

\* When an endpoint returns an error, the core and the metadata agree on
\* its service.
ErrorReturnConsistent ==
  [][\A c \in Clients :
       (ep[c].pc # "error" /\ ep'[c].pc = "error")
         => (meta'[ep'[c].name] <=>
               svc'[ep'[c].name].st \in {"running", "stopping"})]_vars

\* C24: start_stop modifies the metadata only after start_service (resp.
\* stop_service) succeeded, a failed core transition leaves the metadata
\* unchanged, and whenever the endpoint returns an error the service's
\* Running/Stopped state in the core equals the `started` flag of the
\* metadata.
C24_StartedFlagConsistent ==
  /\ MetadataAfterCore
  /\ FailedCoreKeepsMetadata
  /\ ErrorReturnConsistent

=============================================================================
